---- MODULE Spec2Model ----
(***************************************************************************)
(* Model of the download manager of rusted-doom-launcher                   *)
(* (src/src/composables/useDownload.ts).                                   *)
(*                                                                         *)
(* Every top-level request (downloadWithDeps or deleteWad) is a call.  A   *)
(* call advances one await at a time: an action is the completion of the   *)
(* awaited backend operation together with the synchronous JavaScript      *)
(* that follows it, up to the next await.  Calls interleave at awaits, as  *)
(* promises do on the single JavaScript thread.                            *)
(***************************************************************************)
EXTENDS Integers, Sequences, FiniteSets, TLC

\* ---------------------------------------------------------------- bounds
\* the longest response body, in chunks
MaxLen == 2

\* ------------------------------------------------------ program constants
ThrottleMs == 100
StartNow == 1000
Gaps == {50, 150}

\* --------------------------------------------------------------- catalog
\* allWads: the catalog handed to downloadWithDeps.  "x" is a slug that a
\* wad requires but the catalog does not hold; "d" has a placeholder URL.
CatalogSlugs == {"a", "b", "c", "d"}
AbsentSlug == "x"

Requires(s) ==
  CASE s = "a" -> <<"b", "x">>
    [] s = "b" -> <<"c">>
    [] OTHER -> <<>>

Filename(s) ==
  CASE s = "a" -> "a.zip"
    [] s = "b" -> "b.wad"
    [] s = "c" -> "c.pk3"
    [] OTHER -> "d.zip"

Ext(s) ==
  CASE s = "a" -> "zip"
    [] s = "b" -> "wad"
    [] s = "c" -> "pk3"
    [] OTHER -> "zip"

UrlIsPlaceholder(s) == s = "d"

\* join(dir, filename) and `${path}.part`
FinalPath(s) == <<"final", Filename(s)>>
PartPath(s) == <<"part", Filename(s)>>

\* ----------------------------------------------------------------- files
\* magic: what the first bytes of the file are; "short" is a file with
\* fewer bytes than the magic needs.  partial: some transfer created or
\* wrote the file and no transfer writing it has finished since.
NoFile == [exists |-> FALSE, magic |-> "short", partial |-> FALSE]
NewFile == [exists |-> TRUE, magic |-> "short", partial |-> TRUE]
PlacedFile(m) == [exists |-> TRUE, magic |-> m, partial |-> FALSE]

\* What a server may send for a slug: the archive, or an error page.
Bodies(s) == {IF Ext(s) = "wad" THEN "PWAD" ELSE "PK", "HTML"}

\* validateDownload: TRUE when it returns, FALSE when it throws on the bytes
MagicOk(ext, magic) ==
  IF ext = "zip" \/ ext = "pk3" THEN magic = "PK"
  ELSE IF ext = "wad" THEN magic = "IWAD" \/ magic = "PWAD"
  ELSE TRUE

\* -------------------------------------------------------------- manifest
\* downloadedAt and size are not tracked: nothing reads them back.
NoRecord == [present |-> FALSE, filename |-> ""]
Record(s) == [present |-> TRUE, filename |-> Filename(s)]
EmptyManifest == [s \in CatalogSlugs |-> NoRecord]

NoProgress == [present |-> FALSE, progress |-> 0, total |-> 0]
Progress(p, t) == [present |-> TRUE, progress |-> p, total |-> t]

\* ----------------------------------------------------------------- state
VARIABLES
  downloads,        \* downloads.value.downloads (in memory)
  downloading,      \* downloading.value
  downloadProgress, \* downloadProgress.value
  diskManifest,     \* launcher-downloads.json
  finalFile,        \* the file at join(dir, filename), per slug
  partFile,         \* the file at `${path}.part`, per slug
  calls             \* per call: position, locals and history

vars == <<downloads, downloading, downloadProgress, diskManifest, finalFile, partFile, calls>>

\* The state of the statistics capture (src/src/composables/useStats.ts).
VARIABLES
  clock,            \* the time of the file system, in ms
  saves,            \* saves/{slug}: the .zds files of the game, per name
  statsDir,         \* stats/{slug}: the session record files, per timestamp
  cap               \* the captureStats pass: position and locals

statsVars == <<clock, saves, statsDir, cap>>

\* The state of one getAggregatedStats call (useStats.ts).
VARIABLES
  sessionSkill,     \* session.skill of the session the outer loop is at
  bestByLevelSkill, \* the map of the call, per key
  observed          \* history: the runs the loops have visited, per pair

aggVars == <<sessionSkill, bestByLevelSkill, observed>>

AggAtRest ==
  /\ sessionSkill = ""
  /\ bestByLevelSkill = <<>>
  /\ observed = <<>>

\* The state of one parseWadDirectory call (src/src/lib/wadParser.ts).
VARIABLES
  data,             \* the bytes of the archive
  wadPc,            \* where the call is: "start", "loop", "done", "threw"
  wadI,             \* i of the loop over the directory
  entries           \* the entries pushed so far

wadVars == <<data, wadPc, wadI, entries>>

WadAtRest ==
  /\ data = <<>>
  /\ wadPc = "none"
  /\ wadI = 0
  /\ entries = <<>>

\* The state of one extractLevelNamesFromData call (wadParser.ts).
VARIABLES
  entry,            \* the entry the loop has dealt with last
  levels            \* the map of the call: the name, per level id

namesVars == <<entry, levels>>

NamesAtRest ==
  /\ entry = <<>>
  /\ levels = <<>>

\* A save container and what the two save readers make of it
\* (parseSaveForStats of useStats.ts, parseSaveFile of useSaves.ts).
VARIABLES
  container,        \* the .zds file that is read
  statsOut,         \* what parseSaveForStats returned, once it has
  savesOut          \* what parseSaveFile returned, once it has

readerVars == <<container, statsOut, savesOut>>

ReaderAtRest ==
  /\ container = <<>>
  /\ statsOut = <<>>
  /\ savesOut = <<>>

\* The state of one parseRawLog call (useGameplayLog).
VARIABLES
  lines,            \* the [time_ms, text] pairs handed to the call
  kept,             \* what filter returned
  events,           \* what map returned
  logPc             \* where the call is: "start", "filtered", "done"

logVars == <<lines, kept, events, logPc>>

LogAtRest ==
  /\ lines = <<>>
  /\ kept = <<>>
  /\ events = <<>>
  /\ logPc = "none"

\* The game engine and the polling for its exit
\* (src/src/composables/useGZDoom.ts).
VARIABLES
  isRunning,        \* isRunning.value
  currentSession,   \* currentSession.value: 0 is null, else the launch that set it
  timers,           \* the intervals of pollForExit that are not cleared, per launch
  procs,            \* the engine processes that run, per launch
  launches,         \* where each launch call is
  ticks,            \* the timer callbacks under way, per poller and position
  saved             \* history: the saveGameplayLog calls, per poller

gzVars == <<isRunning, currentSession, timers, procs, launches, ticks, saved>>

GZAtRest ==
  /\ isRunning = FALSE
  /\ currentSession = 0
  /\ timers = {}
  /\ procs = {}
  /\ launches = <<>>
  /\ ticks = <<>>
  /\ saved = <<>>

\* launcher-downloads.json as loadState finds it (useDownload.ts); its
\* entries are diskManifest.
VARIABLES
  manifestFile,     \* "missing", "unreadable", "garbled", or the version it holds
  load              \* the loadState call: position and outcome

loadVars == <<manifestFile, load>>

LoadAtRest ==
  /\ manifestFile = "none"
  /\ load = <<>>

\* One validation of a year by WadEntrySchema (src/src/lib/schema.ts).
VARIABLES
  loadedYear,       \* the calendar year in which the module was evaluated
  thisYear,         \* the calendar year now
  year,             \* the year handed to the schema
  accepted          \* "none", or what safeParse said: "yes" or "no"

schemaVars == <<loadedYear, thisYear, year, accepted>>

SchemaAtRest ==
  /\ loadedYear = 0
  /\ thisYear = 0
  /\ year = 0
  /\ accepted = "none"

\* the parts at rest, for the specifications of the parts declared before
LaterAtRest == LogAtRest /\ GZAtRest /\ LoadAtRest /\ SchemaAtRest

\* what each part of the launcher never touches
outsideDownload == <<statsVars, aggVars, wadVars, namesVars, readerVars, logVars, gzVars, loadVars, schemaVars>>
outsideStats == <<vars, aggVars, wadVars, namesVars, readerVars, logVars, gzVars, loadVars, schemaVars>>
outsideAgg == <<vars, statsVars, wadVars, namesVars, readerVars, logVars, gzVars, loadVars, schemaVars>>
outsideWad == <<vars, statsVars, aggVars, namesVars, readerVars, logVars, gzVars, loadVars, schemaVars>>
outsideNames == <<vars, statsVars, aggVars, wadVars, readerVars, logVars, gzVars, loadVars, schemaVars>>
outsideReader == <<vars, statsVars, aggVars, wadVars, namesVars, logVars, gzVars, loadVars, schemaVars>>
outsideLog == <<vars, statsVars, aggVars, wadVars, namesVars, readerVars, gzVars, loadVars, schemaVars>>
outsideGZ == <<vars, statsVars, aggVars, wadVars, namesVars, readerVars, logVars, loadVars, schemaVars>>
outsideLoad == <<statsVars, aggVars, wadVars, namesVars, readerVars, logVars, gzVars, schemaVars>>
outsideSchema == <<vars, statsVars, aggVars, wadVars, namesVars, readerVars, logVars, gzVars, loadVars>>

\* The parts of the launcher that one specification leaves alone stay as
\* they are at the start.
StatsAtRest ==
  /\ clock = 0
  /\ saves = <<>>
  /\ statsDir = <<>>
  /\ cap = <<>>

\* Two requests of the user interface that may overlap.
Calls == {1, 2}

IdleCall ==
  [ op |-> "none", pc |-> "idle", wad |-> "a", idx |-> 0, cur |-> "a",
    depPaths |-> <<>>, result |-> <<>>, outcome |-> "none", failedAt |-> "none",
    total |-> 0, sent |-> 0, lastUpdate |-> 0,
    target |-> "none", snapshot |-> EmptyManifest, ret |-> "none", err |-> "none",
    via |-> "none", sawCommitted |-> FALSE, validated |-> FALSE, placed |-> FALSE,
    registered |-> FALSE, transferred |-> FALSE, lastPublished |-> 0,
    started |-> {}, completed |-> {} ]

\* The file c.pk3 that the user has put into the library folder by hand:
\* an archive, or something else under that name.
OutOfBand == {PlacedFile("PK"), PlacedFile("HTML")}

Init ==
  /\ LaterAtRest
  /\ downloads = EmptyManifest
  /\ downloading = {}
  /\ downloadProgress = [s \in CatalogSlugs |-> NoProgress]
  /\ diskManifest = EmptyManifest
  /\ \E f \in OutOfBand : finalFile = [s \in CatalogSlugs |-> IF s = "c" THEN f ELSE NoFile]
  /\ partFile = [s \in CatalogSlugs |-> NoFile]
  /\ calls = [c \in Calls |-> IdleCall]
  /\ StatsAtRest
  /\ AggAtRest
  /\ WadAtRest
  /\ NamesAtRest
  /\ ReaderAtRest


\* ------------------------------------------------------- downloadWithDeps
Len0(w) == Len(Requires(w))

\* The slug of the idx-th downloadWad invocation of downloadWithDeps(w):
\* the dependencies in order, then the requested wad itself.
SlugAt(w, i) == IF i <= Len0(w) THEN Requires(w)[i] ELSE w

\* allWads.find(w => w.slug === dep.slug)
InCatalog(s) == s \in CatalogSlugs

\* (mutant) the loop over wad.requires is left out
NextIdxNoDeps(w, i) == Len0(w) + 1

\* The next invocation after the i-th: the loop skips the dependencies the
\* catalog does not hold, then comes the requested wad.
NextIdx(w, i) ==
  IF \E j \in (i + 1)..Len0(w) : InCatalog(Requires(w)[j])
  THEN CHOOSE j \in (i + 1)..Len0(w) :
         /\ InCatalog(Requires(w)[j])
         /\ \A k \in (i + 1)..(j - 1) : ~InCatalog(Requires(w)[k])
  ELSE Len0(w) + 1

\* downloadWad up to its first awaited backend call: the checks of
\* wad.downloads and of the URL, then join and exists(path) is pending.
BeginDownloadWad(rec, i) ==
  LET s == SlugAt(rec.wad, i) IN
  IF UrlIsPlaceholder(s)
  THEN [rec EXCEPT !.pc = "done", !.idx = i, !.cur = s, !.outcome = "error",
                   !.err = "url", !.failedAt = s, !.via = "none"]
  ELSE [rec EXCEPT !.pc = "dl_exists", !.idx = i, !.cur = s,
                   !.via = "none", !.sawCommitted = FALSE, !.validated = FALSE,
                   !.placed = FALSE, !.registered = FALSE, !.transferred = FALSE,
                   !.ret = "none", !.err = "none"]

\* downloadWad returned path: push it (a dependency) and go on with the
\* loop, or return { wadPath, depPaths } (the requested wad).
ReturnPath(rec) ==
  LET done == [rec EXCEPT !.completed = @ \cup {rec.cur}] IN
  IF rec.idx <= Len0(rec.wad)
  THEN BeginDownloadWad([done EXCEPT !.depPaths = Append(@, FinalPath(rec.cur))],
                        NextIdx(rec.wad, rec.idx))
  ELSE [done EXCEPT !.pc = "done", !.outcome = "ok", !.result = FinalPath(rec.cur)]

\* downloadWad threw: downloadWithDeps and handlePlay end with the error.
Throw(rec, e) ==
  [rec EXCEPT !.pc = "done", !.outcome = "error", !.err = e, !.failedAt = rec.cur]

Set(c, rec) == calls' = [calls EXCEPT ![c] = rec]

\* Calls are numbered in the order in which they are made.
MayStart(c) ==
  /\ calls[c].pc = "idle"
  /\ c > 1 => calls[c - 1].pc # "idle"

\* handlePlay: downloadWithDeps(wad, allWads)
StartPlay(c, w) ==
  /\ MayStart(c)
  /\ Set(c, BeginDownloadWad([calls[c] EXCEPT !.op = "deps", !.wad = w], NextIdx(w, 0)))
  /\ UNCHANGED <<downloads, downloading, downloadProgress, diskManifest, finalFile, partFile>>
  /\ UNCHANGED outsideDownload

\* ----------------------------------------------------------- downloadWad
\* the finally block
FinallyDownloading(s) == downloading \ {s}
FinallyProgress(s) == [downloadProgress EXCEPT ![s] = NoProgress]

\* (mutant) the file at the final path is not looked for
DlExistsIgnored(c) ==
  LET rec == calls[c]  s == rec.cur IN
  /\ rec.pc = "dl_exists"
  /\ Set(c, [rec EXCEPT !.pc = "dl_mkdir", !.via = "transfer"])
  /\ downloading' = downloading \cup {s}
  /\ downloadProgress' = [downloadProgress EXCEPT ![s] = Progress(0, 0)]
  /\ UNCHANGED <<downloads, diskManifest, finalFile, partFile>>
  /\ UNCHANGED outsideDownload

\* if (await exists(path)) ... else downloading.add, downloadProgress, mkdir
DlExists(c) ==
  LET rec == calls[c]  s == rec.cur IN
  /\ rec.pc = "dl_exists"
  /\ IF finalFile[s].exists
     THEN /\ Set(c, [rec EXCEPT !.pc = "dl_validate_existing", !.via = "existing"])
          /\ UNCHANGED <<downloading, downloadProgress>>
     ELSE /\ Set(c, [rec EXCEPT !.pc = "dl_mkdir", !.via = "transfer"])
          /\ downloading' = downloading \cup {s}
          /\ downloadProgress' = [downloadProgress EXCEPT ![s] = Progress(0, 0)]
  /\ UNCHANGED <<downloads, diskManifest, finalFile, partFile>>
  /\ UNCHANGED outsideDownload

\* (mutant) the record is written again although isDownloaded(wad.slug)
DlValidateExistingAlwaysStat(c) ==
  LET rec == calls[c]  s == rec.cur IN
  /\ rec.pc = "dl_validate_existing"
  /\ IF ~finalFile[s].exists THEN Set(c, Throw(rec, "notfound"))
     ELSE IF ~MagicOk(Ext(s), finalFile[s].magic) THEN Set(c, Throw(rec, "validation"))
     ELSE Set(c, [rec EXCEPT !.pc = "dl_stat_existing", !.validated = TRUE])
  /\ UNCHANGED <<downloads, downloading, downloadProgress, diskManifest, finalFile, partFile>>
  /\ UNCHANGED outsideDownload

\* await validateDownload(path, filename); if (!isDownloaded(wad.slug)) stat
DlValidateExisting(c) ==
  LET rec == calls[c]  s == rec.cur IN
  /\ rec.pc = "dl_validate_existing"
  /\ IF ~finalFile[s].exists THEN Set(c, Throw(rec, "notfound"))
     ELSE IF ~MagicOk(Ext(s), finalFile[s].magic) THEN Set(c, Throw(rec, "validation"))
     ELSE IF ~downloads[s].present
          THEN Set(c, [rec EXCEPT !.pc = "dl_stat_existing", !.validated = TRUE])
          ELSE Set(c, ReturnPath([rec EXCEPT !.validated = TRUE, !.sawCommitted = TRUE]))
  /\ UNCHANGED <<downloads, downloading, downloadProgress, diskManifest, finalFile, partFile>>
  /\ UNCHANGED outsideDownload

\* const fileStat = await stat(path); downloads[slug] = {...}; saveState()
DlStatExisting(c) ==
  LET rec == calls[c]  s == rec.cur IN
  /\ rec.pc = "dl_stat_existing"
  /\ IF finalFile[s].exists
     THEN /\ downloads' = [downloads EXCEPT ![s] = Record(s)]
          /\ Set(c, [rec EXCEPT !.pc = "save_join", !.ret = "existing", !.registered = TRUE])
     ELSE /\ Set(c, Throw(rec, "notfound"))
          /\ UNCHANGED downloads
  /\ UNCHANGED <<downloading, downloadProgress, diskManifest, finalFile, partFile>>
  /\ UNCHANGED outsideDownload

\* stat rejects (input/output fault)
DlStatExistingFail(c) ==
  LET rec == calls[c] IN
  /\ rec.pc = "dl_stat_existing"
  /\ Set(c, Throw(rec, "io"))
  /\ UNCHANGED <<downloads, downloading, downloadProgress, diskManifest, finalFile, partFile>>
  /\ UNCHANGED outsideDownload

\* ------------------------------------------------ tauriDownload (backend)
\* Other transfers that write the file one slug has at a path keep writing
\* that file when it is renamed ("final") or unlinked ("gone").
Retarget(s, from, to) ==
  [k \in Calls |->
     IF calls[k].pc = "dl_transfer" /\ calls[k].cur = s /\ calls[k].target = from
     THEN [calls[k] EXCEPT !.target = to] ELSE calls[k]]

\* one chunk of the response body written to the file the transfer holds
WriteChunk(f, k, m) ==
  [exists |-> TRUE, magic |-> IF k = 1 THEN m ELSE f.magic, partial |-> TRUE]

\* The locals of a transfer, dropped when tauriDownload settles.
EndTransfer(rec) ==
  [rec EXCEPT !.total = 0, !.sent = 0, !.lastUpdate = 0, !.lastPublished = 0,
              !.target = "none"]

\* the throttle of the progress callback
ShouldPublish(t, last, progressTotal, total) ==
  t - last > ThrottleMs \/ progressTotal = total

\* await mkdir(dir); tauriDownload(url, partPath, cb): the response starts
\* and the backend creates (or truncates) the .part file.  tot is the
\* length the server advertises, 0 when it advertises none.
DlTransferStart(c, tot) ==
  LET rec == calls[c]  s == rec.cur IN
  /\ rec.pc = "dl_mkdir"
  /\ partFile' = [partFile EXCEPT ![s] = NewFile]
  /\ Set(c, [rec EXCEPT !.pc = "dl_transfer", !.total = tot, !.sent = 0,
                        !.lastUpdate = 0, !.lastPublished = 0, !.target = "part",
                        !.started = @ \cup {s}])
  /\ UNCHANGED <<downloads, downloading, downloadProgress, diskManifest, finalFile>>
  /\ UNCHANGED outsideDownload

\* the request fails before the backend creates the file: the finally
\* block runs and downloadWad throws
DlTransferRefused(c) ==
  LET rec == calls[c]  s == rec.cur IN
  /\ rec.pc = "dl_mkdir"
  /\ downloading' = FinallyDownloading(s)
  /\ downloadProgress' = FinallyProgress(s)
  /\ Set(c, Throw(rec, "transfer"))
  /\ UNCHANGED <<downloads, diskManifest, finalFile, partFile>>
  /\ UNCHANGED outsideDownload

\* The backend writes one more chunk of the body (the first one carries
\* the magic m) and calls the progress callback, gap ms after the update
\* published last, with progressTotal and total.  Date.now() of the first
\* callback is StartNow.
DlChunk(c, gap, m) ==
  LET rec == calls[c]  s == rec.cur  k == rec.sent + 1
      t == IF rec.lastUpdate = 0 THEN StartNow ELSE rec.lastUpdate + gap
      publish == ShouldPublish(t, rec.lastUpdate, k, rec.total) IN
  /\ rec.pc = "dl_transfer"
  /\ rec.sent < (IF rec.total > 0 THEN rec.total ELSE MaxLen)
  /\ partFile' = IF rec.target = "part"
                 THEN [partFile EXCEPT ![s] = WriteChunk(@, k, m)] ELSE partFile
  /\ finalFile' = IF rec.target = "final"
                  THEN [finalFile EXCEPT ![s] = WriteChunk(@, k, m)] ELSE finalFile
  /\ downloadProgress' = IF publish
                         THEN [downloadProgress EXCEPT ![s] = Progress(k, rec.total)]
                         ELSE downloadProgress
  /\ Set(c, [rec EXCEPT !.sent = k,
                        !.lastUpdate = IF publish THEN t ELSE @,
                        !.lastPublished = IF publish THEN k ELSE @])
  /\ UNCHANGED <<downloads, downloading, diskManifest>>
  /\ UNCHANGED outsideDownload

\* the body is complete: tauriDownload resolves, validateDownload reads
DlTransferDone(c) ==
  LET rec == calls[c]  s == rec.cur IN
  /\ rec.pc = "dl_transfer"
  /\ rec.sent >= 1
  /\ rec.total > 0 => rec.sent = rec.total
  /\ partFile' = IF rec.target = "part"
                 THEN [partFile EXCEPT ![s].partial = FALSE] ELSE partFile
  /\ finalFile' = IF rec.target = "final"
                  THEN [finalFile EXCEPT ![s].partial = FALSE] ELSE finalFile
  /\ Set(c, [EndTransfer(rec) EXCEPT !.pc = "dl_validate_part", !.transferred = TRUE])
  /\ UNCHANGED <<downloads, downloading, downloadProgress, diskManifest>>
  /\ UNCHANGED outsideDownload

\* the connection breaks: tauriDownload rejects, the file stays as it is,
\* the finally block runs and downloadWad throws
DlTransferFail(c) ==
  LET rec == calls[c]  s == rec.cur IN
  /\ rec.pc = "dl_transfer"
  /\ downloading' = FinallyDownloading(s)
  /\ downloadProgress' = FinallyProgress(s)
  /\ Set(c, Throw(EndTransfer(rec), "transfer"))
  /\ UNCHANGED <<downloads, diskManifest, finalFile, partFile>>
  /\ UNCHANGED outsideDownload

\* ------------------------------------------- downloadWad, after transfer
\* (mutant) a failed validation does not stop the commit
DlValidatePartSkipped(c) ==
  LET rec == calls[c]  s == rec.cur IN
  /\ rec.pc = "dl_validate_part"
  /\ IF partFile[s].exists /\ MagicOk(Ext(s), partFile[s].magic)
     THEN Set(c, [rec EXCEPT !.pc = "dl_rename", !.validated = TRUE])
     ELSE Set(c, [rec EXCEPT !.pc = "dl_rename"])
  /\ UNCHANGED <<downloads, downloading, downloadProgress, diskManifest, finalFile, partFile>>
  /\ UNCHANGED outsideDownload

\* try { await validateDownload(partPath, filename) } catch { remove ... }
DlValidatePart(c) ==
  LET rec == calls[c]  s == rec.cur IN
  /\ rec.pc = "dl_validate_part"
  /\ IF ~partFile[s].exists
     THEN Set(c, [rec EXCEPT !.pc = "dl_remove_part", !.err = "notfound"])
     ELSE IF ~MagicOk(Ext(s), partFile[s].magic)
     THEN Set(c, [rec EXCEPT !.pc = "dl_remove_part", !.err = "validation"])
     ELSE Set(c, [rec EXCEPT !.pc = "dl_rename", !.validated = TRUE])
  /\ UNCHANGED <<downloads, downloading, downloadProgress, diskManifest, finalFile, partFile>>
  /\ UNCHANGED outsideDownload

\* (mutant) the validation error is thrown without remove(partPath)
DlRemovePartKept(c) ==
  LET rec == calls[c]  s == rec.cur IN
  /\ rec.pc = "dl_remove_part"
  /\ Set(c, Throw(rec, rec.err))
  /\ downloading' = FinallyDownloading(s)
  /\ downloadProgress' = FinallyProgress(s)
  /\ UNCHANGED <<downloads, diskManifest, finalFile, partFile>>
  /\ UNCHANGED outsideDownload

\* await remove(partPath); throw validationError; finally
DlRemovePart(c) ==
  LET rec == calls[c]  s == rec.cur IN
  /\ rec.pc = "dl_remove_part"
  /\ partFile' = [partFile EXCEPT ![s] = NoFile]
  /\ calls' = [Retarget(s, "part", "gone") EXCEPT
                 ![c] = Throw(rec, IF partFile[s].exists THEN rec.err ELSE "notfound")]
  /\ downloading' = FinallyDownloading(s)
  /\ downloadProgress' = FinallyProgress(s)
  /\ UNCHANGED <<downloads, diskManifest, finalFile>>
  /\ UNCHANGED outsideDownload

\* await rename(partPath, path); stat is next
DlRename(c) ==
  LET rec == calls[c]  s == rec.cur IN
  /\ rec.pc = "dl_rename"
  /\ IF partFile[s].exists
     THEN /\ finalFile' = [finalFile EXCEPT ![s] = partFile[s]]
          /\ partFile' = [partFile EXCEPT ![s] = NoFile]
          /\ calls' = [k \in Calls |->
                        IF k = c THEN [rec EXCEPT !.pc = "dl_stat", !.placed = TRUE]
                        ELSE IF calls[k].pc = "dl_transfer" /\ calls[k].cur = s
                        THEN [calls[k] EXCEPT !.target =
                                CASE @ = "part" -> "final" [] @ = "final" -> "gone" [] OTHER -> @]
                        ELSE calls[k]]
          /\ UNCHANGED <<downloading, downloadProgress>>
     ELSE /\ Set(c, Throw(rec, "notfound"))
          /\ downloading' = FinallyDownloading(s)
          /\ downloadProgress' = FinallyProgress(s)
          /\ UNCHANGED <<finalFile, partFile>>
  /\ UNCHANGED <<downloads, diskManifest>>
  /\ UNCHANGED outsideDownload

\* rename rejects (input/output fault): finally, throw
DlRenameFail(c) ==
  LET rec == calls[c]  s == rec.cur IN
  /\ rec.pc = "dl_rename"
  /\ Set(c, Throw(rec, "io"))
  /\ downloading' = FinallyDownloading(s)
  /\ downloadProgress' = FinallyProgress(s)
  /\ UNCHANGED <<downloads, diskManifest, finalFile, partFile>>
  /\ UNCHANGED outsideDownload

\* const fileStat = await stat(path); downloads[slug] = {...}; saveState()
DlStat(c) ==
  LET rec == calls[c]  s == rec.cur IN
  /\ rec.pc = "dl_stat"
  /\ IF finalFile[s].exists
     THEN /\ downloads' = [downloads EXCEPT ![s] = Record(s)]
          /\ Set(c, [rec EXCEPT !.pc = "save_join", !.ret = "transfer", !.registered = TRUE])
          /\ UNCHANGED <<downloading, downloadProgress>>
     ELSE /\ Set(c, Throw(rec, "notfound"))
          /\ downloading' = FinallyDownloading(s)
          /\ downloadProgress' = FinallyProgress(s)
          /\ UNCHANGED downloads
  /\ UNCHANGED <<diskManifest, finalFile, partFile>>
  /\ UNCHANGED outsideDownload

\* stat rejects (input/output fault): finally, throw
DlStatFail(c) ==
  LET rec == calls[c]  s == rec.cur IN
  /\ rec.pc = "dl_stat"
  /\ Set(c, Throw(rec, "io"))
  /\ downloading' = FinallyDownloading(s)
  /\ downloadProgress' = FinallyProgress(s)
  /\ UNCHANGED <<downloads, diskManifest, finalFile, partFile>>
  /\ UNCHANGED outsideDownload

\* await loadLevelNames(wad.slug) (it catches its own errors); return path;
\* finally
DlLevelNames(c) ==
  LET rec == calls[c]  s == rec.cur IN
  /\ rec.pc = "dl_levelnames"
  /\ Set(c, ReturnPath(rec))
  /\ downloading' = FinallyDownloading(s)
  /\ downloadProgress' = FinallyProgress(s)
  /\ UNCHANGED <<downloads, diskManifest, finalFile, partFile>>
  /\ UNCHANGED outsideDownload

\* -------------------------------------------------------------- saveState
\* join resolves; writeTextFile(path, JSON.stringify(downloads.value)) is
\* sent to the backend with the manifest as it is at this moment
SaveJoin(c) ==
  LET rec == calls[c] IN
  /\ rec.pc = "save_join"
  /\ Set(c, [rec EXCEPT !.pc = "save_write", !.snapshot = downloads])
  /\ UNCHANGED <<downloads, downloading, downloadProgress, diskManifest, finalFile, partFile>>
  /\ UNCHANGED outsideDownload

\* The backend writes the file and saveState returns to its caller: the
\* short-circuit of downloadWad returns path, the transfer path goes on to
\* loadLevelNames, deleteWad returns.  Writes of several calls are applied
\* in the order in which the backend finishes them.
SaveWrite(c) ==
  LET rec == calls[c] IN
  /\ rec.pc = "save_write"
  /\ diskManifest' = rec.snapshot
  /\ LET r == [rec EXCEPT !.snapshot = EmptyManifest] IN
     Set(c, CASE rec.ret = "existing" -> ReturnPath(r)
              [] rec.ret = "transfer" -> [r EXCEPT !.pc = "dl_levelnames"]
              [] OTHER -> [r EXCEPT !.pc = "done", !.outcome = "ok"])
  /\ UNCHANGED <<downloads, downloading, downloadProgress, finalFile, partFile>>
  /\ UNCHANGED outsideDownload

\* writeTextFile rejects (input/output fault): the caller throws, through
\* the finally block on the transfer path
SaveWriteFail(c) ==
  LET rec == calls[c]  s == rec.cur IN
  /\ rec.pc = "save_write"
  /\ Set(c, Throw([rec EXCEPT !.snapshot = EmptyManifest], "io"))
  /\ downloading' = IF rec.ret = "transfer" THEN FinallyDownloading(s) ELSE downloading
  /\ downloadProgress' = IF rec.ret = "transfer" THEN FinallyProgress(s) ELSE downloadProgress
  /\ UNCHANGED <<downloads, diskManifest, finalFile, partFile>>
  /\ UNCHANGED outsideDownload

\* -------------------------------------------------------------- deleteWad
\* handleDelete: deleteWad(slug); const info = ...; if (!info) return
StartDelete(c, s) ==
  /\ MayStart(c)
  /\ IF downloads[s].present
     THEN Set(c, [calls[c] EXCEPT !.op = "delete", !.wad = s, !.cur = s, !.pc = "del_remove"])
     ELSE Set(c, [calls[c] EXCEPT !.op = "delete", !.wad = s, !.cur = s, !.pc = "done",
                                  !.outcome = "ok"])
  /\ UNCHANGED <<downloads, downloading, downloadProgress, diskManifest, finalFile, partFile>>
  /\ UNCHANGED outsideDownload

\* (mutant) a rejected remove ends deleteWad: the record stays
DelRemoveAborting(c) ==
  LET rec == calls[c]  s == rec.cur IN
  /\ rec.pc = "del_remove"
  /\ IF finalFile[s].exists
     THEN /\ finalFile' = [finalFile EXCEPT ![s] = NoFile]
          /\ downloads' = [downloads EXCEPT ![s] = NoRecord]
          /\ calls' = [Retarget(s, "final", "gone") EXCEPT
                         ![c] = [rec EXCEPT !.pc = "save_join", !.ret = "delete"]]
     ELSE /\ Set(c, Throw(rec, "notfound"))
          /\ UNCHANGED <<downloads, finalFile>>
  /\ UNCHANGED <<downloading, downloadProgress, diskManifest, partFile>>
  /\ UNCHANGED outsideDownload

\* try { await remove(filePath) } catch { log }; delete downloads[slug];
\* saveState().  remove rejects when the file is not there.
DelRemove(c) ==
  LET rec == calls[c]  s == rec.cur IN
  /\ rec.pc = "del_remove"
  /\ finalFile' = [finalFile EXCEPT ![s] = NoFile]
  /\ downloads' = [downloads EXCEPT ![s] = NoRecord]
  /\ calls' = [Retarget(s, "final", "gone") EXCEPT
                 ![c] = [rec EXCEPT !.pc = "save_join", !.ret = "delete",
                                    !.err = IF finalFile[s].exists THEN "none" ELSE "logged"]]
  /\ UNCHANGED <<downloading, downloadProgress, diskManifest, partFile>>
  /\ UNCHANGED outsideDownload

\* ---------------------------------------------------------- specification
Next ==
  \E c \in Calls :
    \/ \E w \in CatalogSlugs : StartPlay(c, w)
    \/ \E s \in CatalogSlugs : StartDelete(c, s)
    \/ DlExists(c)
    \/ DlValidateExisting(c)
    \/ DlStatExisting(c)
    \/ DlStatExistingFail(c)
    \/ \E tot \in 0..MaxLen : DlTransferStart(c, tot)
    \/ DlTransferRefused(c)
    \/ \E gap \in Gaps, m \in Bodies(calls[c].cur) : DlChunk(c, gap, m)
    \/ DlTransferDone(c)
    \/ DlTransferFail(c)
    \/ DlValidatePart(c)
    \/ DlRemovePart(c)
    \/ DlRename(c)
    \/ DlRenameFail(c)
    \/ DlStat(c)
    \/ DlStatFail(c)
    \/ DlLevelNames(c)
    \/ SaveJoin(c)
    \/ SaveWrite(c)
    \/ SaveWriteFail(c)
    \/ DelRemove(c)

Spec == Init /\ [][Next]_vars

\* ------------------------------------------------------------ vocabulary
\* call c took a step
Stepped(c) == calls'[c] # calls[c]

\* the downloadWad invocation of call c ends in this step
Ends(c) ==
  /\ calls[c].op = "deps"
  /\ calls[c].pc \notin {"idle", "done"}
  /\ \/ calls'[c].pc = "done"
     \/ calls'[c].idx # calls[c].idx

\* ... by returning path
Returns(c, path) ==
  /\ Ends(c)
  /\ IF calls[c].idx <= Len0(calls[c].wad)
     THEN /\ Len(calls'[c].depPaths) = Len(calls[c].depPaths) + 1
          /\ calls'[c].depPaths[Len(calls'[c].depPaths)] = path
     ELSE /\ calls'[c].outcome = "ok"
          /\ calls'[c].result = path

\* ... by throwing
Throws(c) ==
  /\ Ends(c)
  /\ calls'[c].pc = "done"
  /\ calls'[c].outcome = "error"
  /\ calls'[c].failedAt = calls[c].cur

\* the transfer of slug s by call c is active
Transferring(c, s) == calls[c].pc = "dl_transfer" /\ calls[c].cur = s

\* everything w requires, directly or through other wads of the catalog
RECURSIVE Closure(_, _)
Closure(S, n) ==
  IF n = 0 THEN S
  ELSE Closure(S \cup UNION {{Requires(s)[i] : i \in 1..Len0(s)} : s \in S \cap CatalogSlugs}, n - 1)

TransitiveDeps(w) == Closure({w}, Cardinality(CatalogSlugs)) \ {w}

\* ------------------------------------------------------------------ claims

\* C1: at most one transfer per slug is active at any time (single-flight
\* per slug), in every interleaving of downloadWad calls.
C1_SingleFlight ==
  \A s \in CatalogSlugs : Cardinality({c \in Calls : Transferring(c, s)}) <= 1

\* C2: when a downloadWad call that started a transfer ends without
\* success, no .part file is left and no partially written file is at the
\* final path.
C2_NoLitterOnFailure ==
  [][\A c \in Calls :
       (Throws(c) /\ calls[c].cur \in calls[c].started)
         => /\ ~partFile'[calls[c].cur].exists
            /\ ~(finalFile'[calls[c].cur].exists /\ finalFile'[calls[c].cur].partial)]_vars

\* C8: after a successful downloadWithDeps every catalog item the requested
\* wad requires, directly or transitively, went through downloadWad.
C8_TransitiveDeps ==
  \A c \in Calls :
    (calls[c].op = "deps" /\ calls[c].pc = "done" /\ calls[c].outcome = "ok")
      => (TransitiveDeps(calls[c].wad) \cap CatalogSlugs) \subseteq calls[c].completed

\* C9: when all download calls have returned, every record of the manifest
\* in memory is in the manifest on disk (no update is lost, in whatever
\* order the writes finish).
C9_NoLostUpdate ==
  (\A c \in Calls : calls[c].op = "deps" /\ calls[c].pc = "done" /\ calls[c].outcome = "ok")
    => \A s \in CatalogSlugs : downloads[s].present => diskManifest[s].present

\* C10: when a transfer completes, the payload published last is the last
\* payload of the transfer.
C10_FinalProgressPublished ==
  [][\A c \in Calls :
       (calls[c].pc = "dl_transfer" /\ calls'[c].pc = "dl_validate_part")
         => calls[c].lastPublished = calls[c].sent]_vars

\* no other call has dealt or deals with slug s
Alone(c, s) ==
  \A e \in Calls \ {c} :
    \/ calls[e].op = "none"
    \/ calls[e].cur # s /\ s \notin calls[e].completed /\ s \notin calls[e].started

C4_FailClosedCommit ==
  [][\A c \in Calls :
       LET r == calls'[c] IN
       /\ (r.registered /\ ~calls[c].registered)
            => /\ calls[c].validated
               /\ calls[c].placed \/ calls[c].via = "existing"
               /\ finalFile[calls[c].cur].exists
       /\ r.registered => r.validated /\ (r.placed \/ r.via = "existing")
       /\ r.placed => r.validated /\ r.via = "transfer"
       /\ (r.validated /\ r.via = "transfer") => r.transferred
       /\ r.pc = "save_write" /\ r.ret # "delete" => r.registered]_vars

\* C4 happens: a call committed a transferred file
C4_Witness ==
  \E c \in Calls :
    /\ calls[c].pc = "done" /\ calls[c].outcome = "ok"
    /\ calls[c].via = "transfer" /\ calls[c].registered /\ calls[c].placed
    /\ downloads[calls[c].cur].present

\* C5: a downloadWad call that finds the slug committed (the validated file
\* at the final path, the record in the manifest) starts no transfer, writes no
\* .part file, leaves the manifest as it is and returns the final path.
C5_IdempotentWhenCommitted ==
  [][\A c \in Calls :
       LET r == calls[c]  s == r.cur
           committed == finalFile[s].exists /\ downloads[s].present IN
       /\ (r.pc = "dl_exists" /\ Stepped(c) /\ committed)
            => /\ calls'[c].pc = "dl_validate_existing"
               /\ s \notin calls'[c].started
               /\ UNCHANGED <<downloads, downloading, partFile, diskManifest>>
       /\ (r.pc = "dl_validate_existing" /\ Stepped(c) /\ committed
             /\ MagicOk(Ext(s), finalFile[s].magic))
            => /\ Returns(c, FinalPath(s))
               /\ UNCHANGED <<downloads, downloading, partFile, diskManifest, finalFile>>]_vars

\* C5 happens: a call returned the path of a slug that an earlier call had
\* committed through a transfer
C5_Witness ==
  \E c, e \in Calls :
    /\ c # e
    /\ calls[c].pc = "done" /\ calls[c].outcome = "ok" /\ calls[c].sawCommitted
    /\ calls[c].result = FinalPath(calls[c].cur)
    /\ calls[e].pc = "done" /\ calls[e].outcome = "ok"
    /\ calls[c].cur \in calls[e].started

\* C6: a downloadWad call that finds a file at the final path starts no
\* transfer; if the file passes validation and the slug is not in the
\* manifest the call goes on to register the record, and when it returns it
\* has registered it and returns the final path; if the file fails
\* validation the call throws and registers nothing.
C6_ExistingFileShortCircuit ==
  [][\A c \in Calls :
       LET r == calls[c]  s == r.cur IN
       /\ (r.pc = "dl_exists" /\ Stepped(c) /\ finalFile[s].exists)
            => /\ calls'[c].pc = "dl_validate_existing"
               /\ s \notin calls'[c].started
               /\ UNCHANGED <<downloading, downloadProgress, partFile>>
       /\ (r.pc = "dl_validate_existing" /\ Stepped(c) /\ finalFile[s].exists
             /\ MagicOk(Ext(s), finalFile[s].magic) /\ ~downloads[s].present)
            => calls'[c].pc = "dl_stat_existing"
       /\ (r.pc = "dl_stat_existing" /\ Stepped(c) /\ calls'[c].pc # "done")
            => downloads'[s] = Record(s) /\ calls'[c].pc = "save_join"
       /\ (r.via = "existing" /\ Ends(c) /\ ~Throws(c))
            => /\ Returns(c, FinalPath(s))
               /\ r.registered \/ (r.pc = "dl_validate_existing" /\ downloads[s].present)
       /\ (r.pc = "dl_validate_existing" /\ Stepped(c) /\ finalFile[s].exists
             /\ ~MagicOk(Ext(s), finalFile[s].magic))
            => /\ Throws(c)
               /\ ~r.registered
               /\ downloads' = downloads /\ diskManifest' = diskManifest]_vars

\* C6 happens: a call registered a file it found and returned its path
C6_Witness ==
  \E c \in Calls :
    /\ calls[c].pc = "done" /\ calls[c].outcome = "ok"
    /\ calls[c].via = "existing" /\ calls[c].registered
    /\ calls[c].cur \notin calls[c].started
    /\ calls[c].result = FinalPath(calls[c].cur)

\* C7: downloadWithDeps is at the requested wad only when downloadWad has
\* returned for every dependency the catalog holds; a dependency the
\* catalog does not hold is never downloaded and never the cause of a
\* failure.
C7_DepsBeforeRequested ==
  \A c \in Calls :
    LET r == calls[c] IN
    r.op = "deps" =>
      /\ (r.pc # "done" /\ r.cur = r.wad) \/ r.wad \in r.started \/ r.wad \in r.completed
           => \A i \in 1..Len0(r.wad) :
                InCatalog(Requires(r.wad)[i]) => Requires(r.wad)[i] \in r.completed
      /\ r.cur \in CatalogSlugs
      /\ r.started \subseteq CatalogSlugs
      /\ r.outcome = "error" => r.failedAt \in CatalogSlugs

\* C7 happens: the requested wad is being transferred, its dependency of
\* the catalog is complete and it has a dependency the catalog lacks
C7_Witness ==
  \E c \in Calls :
    /\ calls[c].op = "deps" /\ calls[c].wad = "a"
    /\ Transferring(c, "a")
    /\ "b" \in calls[c].completed
    /\ \E i \in 1..Len0("a") : ~InCatalog(Requires("a")[i])

\* the downloadWad invocation of call c is past downloading.add and before
\* the end of its finally block
InFlight(c) ==
  /\ calls[c].op = "deps"
  /\ calls[c].via = "transfer"
  /\ calls[c].pc \notin {"idle", "done"}

\* C11: the in-flight flag and the progress entry of a slug are there from
\* the moment a downloadWad call turns to the transfer until that call
\* ends, they are gone when the call has ended (on every path), and a call
\* that found the file at the final path never creates them.
C11_ProgressLifecycle ==
  [][\A c \in Calls :
       LET s == calls[c].cur IN
       /\ InFlight(c) => s \in downloading /\ downloadProgress[s].present
       /\ (InFlight(c) /\ Ends(c))
            => s \notin downloading' /\ ~downloadProgress'[s].present
       /\ (Stepped(c) /\ calls'[c].via = "existing")
            => UNCHANGED <<downloading, downloadProgress>>]_vars

\* C26: whenever a transfer of a slug is in flight, isDownloading(slug) is
\* true and the slug has a progress entry; no call that finishes takes them
\* away from another transfer of the slug that is still running.
C26_FlagWhileInFlight ==
  \A c \in Calls :
    Transferring(c, calls[c].cur)
      => /\ calls[c].cur \in downloading
         /\ downloadProgress[calls[c].cur].present

\* no downloadWad or deleteWad call is under way, and one has ended
AllEnded ==
  /\ \A c \in Calls : calls[c].pc \in {"idle", "done"}
  /\ \E c \in Calls : calls[c].pc = "done"

\* C27: when every downloadWad and deleteWad call has ended (returned or
\* thrown, a failed write of the manifest file included), isDownloaded(slug)
\* is true exactly when launcher-downloads.json holds the slug.
C27_ManifestAgreesWithDisk ==
  AllEnded => \A s \in CatalogSlugs : downloads[s].present = diskManifest[s].present

\* ======================================================================
\* Statistics capture (src/src/composables/useStats.ts)
\*
\* The game writes .zds save files while it runs; when it closes the
\* launcher runs captureStats, which turns every save file into a session
\* record file named after the modification time of the save.
\* ======================================================================
DownloadAtRest ==
  /\ downloads = EmptyManifest
  /\ downloading = {}
  /\ downloadProgress = [s \in CatalogSlugs |-> NoProgress]
  /\ diskManifest = EmptyManifest
  /\ finalFile = [s \in CatalogSlugs |-> NoFile]
  /\ partFile = [s \in CatalogSlugs |-> NoFile]
  /\ calls = [c \in Calls |-> IdleCall]

\* ---------------------------------------------------------------- bounds
\* the last tick of the file system clock
MaxTime == 2

\* --------------------------------------------------------------- fixture
SaveNames == {"auto01.zds", "save01.zds"}
Times == 1..MaxTime

\* What a save holds, as far as captureStats compares it: the length of
\* statistics.levels, the start level and the skill; or a file that
\* parseSaveForStats cannot read (not a zip, no statistics).
Unreadable == [readable |-> FALSE, nlevels |-> 0, startLevel |-> "", skill |-> ""]
SaveContents ==
  { [readable |-> TRUE, nlevels |-> 1, startLevel |-> "MAP01", skill |-> "HMP"],
    [readable |-> TRUE, nlevels |-> 2, startLevel |-> "MAP01", skill |-> "HMP"],
    Unreadable }

NoSave == [present |-> FALSE, mtime |-> 0, content |-> Unreadable]
SaveFile(t, k) == [present |-> TRUE, mtime |-> t, content |-> k]

\* a session (Omit<PlaySession, "capturedAt">), null, and a record file
NoSession ==
  [present |-> FALSE, sourceFile |-> "", nlevels |-> 0, startLevel |-> "",
   skill |-> "", capturedAt |-> 0]
Session(name, k) ==
  [present |-> TRUE, sourceFile |-> name, nlevels |-> k.nlevels,
   startLevel |-> k.startLevel, skill |-> k.skill, capturedAt |-> 0]

\* settled and failed are history: a pass has ended with no write rejected
\* and no save file has changed since; a write of this pass was rejected.
IdleCap ==
  [pc |-> "idle", queue |-> <<>>, session |-> NoSession, capturedCount |-> 0,
   settled |-> FALSE, failed |-> FALSE]

InitStats ==
  /\ LaterAtRest
  /\ DownloadAtRest
  /\ clock = 1
  /\ saves = [n \in SaveNames |-> NoSave]
  /\ statsDir = [t \in Times |-> NoSession]
  /\ cap = IdleCap
  /\ AggAtRest
  /\ WadAtRest
  /\ NamesAtRest
  /\ ReaderAtRest

\* ------------------------------------------------------------- the game
\* the game writes (or overwrites) a save file
GameSaves(n, k) ==
  /\ cap.pc = "idle"
  /\ saves' = [saves EXCEPT ![n] = SaveFile(clock, k)]
  /\ cap' = [cap EXCEPT !.settled = FALSE]
  /\ UNCHANGED <<clock, statsDir>>
  /\ UNCHANGED outsideStats

\* time passes
Tick ==
  /\ cap.pc = "idle"
  /\ clock < MaxTime
  /\ clock' = clock + 1
  /\ UNCHANGED <<saves, statsDir, cap>>
  /\ UNCHANGED outsideStats

\* ---------------------------------------------------------- captureStats
\* parseSaveForStats(savePath, saveFileName)
ParseSaveForStats(name, f) ==
  IF f.present /\ f.content.readable THEN Session(name, f.content) ELSE NoSession

\* `${sanitizeTimestamp(timestamp)}.json`: one name per millisecond
SessionFile(timestamp) == timestamp

\* sessionExists(statsDir, session, timestamp)
SessionExists(dir, session, timestamp) ==
  LET existing == dir[SessionFile(timestamp)] IN
  IF ~existing.present THEN FALSE
  ELSE /\ existing.sourceFile = session.sourceFile
       /\ existing.nlevels = session.nlevels
       /\ existing.startLevel = session.startLevel
       /\ existing.skill = session.skill

\* the orders in which readDir may list the files of a set
Listings(S) ==
  {q \in [1..Cardinality(S) -> S] : \A i, j \in 1..Cardinality(S) : q[i] = q[j] => i = j}

\* `continue`, or the end of the loop body: the next save, or return
NextSave(rec) ==
  IF Len(rec.queue) <= 1 THEN [IdleCap EXCEPT !.settled = ~rec.failed]
  ELSE [rec EXCEPT !.pc = "parse", !.queue = Tail(@), !.session = NoSession]

\* exists(savesDir), mkdir(statsDir), loadLevelNames, readDir(savesDir) and
\* stat of every .zds entry: saveFiles is the list of names and mtimes
CapList ==
  /\ cap.pc = "idle"
  /\ \E q \in Listings({n \in SaveNames : saves[n].present}) :
       cap' = IF Len(q) = 0 THEN [IdleCap EXCEPT !.settled = TRUE]
              ELSE [IdleCap EXCEPT !.pc = "parse", !.settled = cap.settled,
                      !.queue = [i \in 1..Len(q) |-> [name |-> q[i], mtime |-> saves[q[i]].mtime]]]
  /\ UNCHANGED <<clock, saves, statsDir>>
  /\ UNCHANGED outsideStats

\* const session = await parseSaveForStats(...); if (!session) continue
CapParse ==
  LET save == Head(cap.queue)
      session == ParseSaveForStats(save.name, saves[save.name]) IN
  /\ cap.pc = "parse"
  /\ cap' = IF session.present
            THEN [cap EXCEPT !.pc = "exists", !.session = session]
            ELSE NextSave(cap)
  /\ UNCHANGED <<clock, saves, statsDir>>
  /\ UNCHANGED outsideStats

\* if (await sessionExists(statsDir, session, timestamp)) continue
CapSessionExists ==
  LET save == Head(cap.queue) IN
  /\ cap.pc = "exists"
  /\ cap' = IF SessionExists(statsDir, cap.session, save.mtime)
            THEN NextSave(cap)
            ELSE [cap EXCEPT !.pc = "write"]
  /\ UNCHANGED <<clock, saves, statsDir>>
  /\ UNCHANGED outsideStats

\* await writeTextFile(filepath, JSON.stringify(fullSession)); capturedCount++
CapWrite ==
  LET save == Head(cap.queue) IN
  /\ cap.pc = "write"
  /\ statsDir' = [statsDir EXCEPT ![SessionFile(save.mtime)] =
                    [cap.session EXCEPT !.capturedAt = save.mtime]]
  /\ cap' = NextSave([cap EXCEPT !.capturedCount = @ + 1])
  /\ UNCHANGED <<clock, saves>>
  /\ UNCHANGED outsideStats

\* writeTextFile rejects: the error is logged, the loop goes on
CapWriteFail ==
  /\ cap.pc = "write"
  /\ cap' = NextSave([cap EXCEPT !.failed = TRUE])
  /\ UNCHANGED <<clock, saves, statsDir>>
  /\ UNCHANGED outsideStats

NextStats ==
  \/ \E n \in SaveNames, k \in SaveContents : GameSaves(n, k)
  \/ Tick
  \/ CapList
  \/ CapParse
  \/ CapSessionExists
  \/ CapWrite
  \/ CapWriteFail

SpecStats == InitStats /\ [][NextStats]_statsVars

\* the four fields by which sessionExists compares
Signature(r) == <<r.sourceFile, r.nlevels, r.startLevel, r.skill>>

\* C12: captureStats writes no session record when some record file of the
\* slug already holds a session with the same sourceFile, number of levels,
\* startLevel and skill.
C12_CaptureDeduplicated ==
  [][statsDir' # statsDir
       => ~\E t \in Times :
             /\ statsDir[t].present
             /\ Signature(statsDir[t]) = Signature(cap.session)]_statsVars

\* C13: a session record file that has been written is never written again
\* with another content.
C13_RecordsAppendOnly ==
  [][\A t \in Times : statsDir[t].present => statsDir'[t] = statsDir[t]]_statsVars

\* C28: a captureStats pass that runs after a pass that has ended, with no
\* save file changed in between, writes no session record (and so returns
\* 0: capturedCount is counted up after a write only).
C28_SecondPassWritesNothing ==
  [][cap.settled => /\ statsDir' = statsDir
                    /\ cap'.capturedCount = 0]_statsVars

\* ======================================================================
\* getAggregatedStats (src/src/composables/useStats.ts)
\*
\* The call folds the sessions that loadAllSessions returns, level by
\* level, into bestByLevelSkill.  The sessions are any sequence: the model
\* feeds them one level at a time.
\* ======================================================================
LevelIds == {"MAP01", "E1M1"}
Skills == {"HMP", "UV"}
Kills == {10, 15}
TimeTics == {80, 100}

NoRun == [present |-> FALSE, id |-> "", kills |-> 0, timeTics |-> 0, skill |-> ""]
Run(id, k, tics, skill) ==
  [present |-> TRUE, id |-> id, kills |-> k, timeTics |-> tics, skill |-> skill]

\* `${level.id}_${session.skill}`
Key(id, skill) == id \o "_" \o skill
Keys == {Key(id, skill) : id \in LevelIds, skill \in Skills}

InitAgg ==
  /\ LaterAtRest
  /\ DownloadAtRest
  /\ StatsAtRest
  /\ WadAtRest
  /\ NamesAtRest
  /\ ReaderAtRest
  /\ sessionSkill \in Skills
  /\ bestByLevelSkill = [k \in Keys |-> NoRun]
  /\ observed = [p \in LevelIds \X Skills |-> {}]

\* (mutant) a run with equal kills replaces the retained one whatever its time
ShouldReplaceOnTie(kills, timeTics, existing) ==
  \/ ~existing.present
  \/ kills >= existing.kills

\* !existing || level.kills > existing.kills ||
\* (level.kills === existing.kills && level.timeTics < existing.timeTics)
ShouldReplace(kills, timeTics, existing) ==
  \/ ~existing.present
  \/ kills > existing.kills
  \/ kills = existing.kills /\ timeTics < existing.timeTics

\* for (const session of sessions): the next session
AggNextSession(skill) ==
  /\ sessionSkill' = skill
  /\ UNCHANGED <<bestByLevelSkill, observed>>
  /\ UNCHANGED outsideAgg

\* for (const level of session.levels): one level of the session
AggLevel(id, kills, timeTics) ==
  LET key == Key(id, sessionSkill)
      existing == bestByLevelSkill[key] IN
  /\ bestByLevelSkill' =
       IF ShouldReplace(kills, timeTics, existing)
       THEN [bestByLevelSkill EXCEPT ![key] = Run(id, kills, timeTics, sessionSkill)]
       ELSE bestByLevelSkill
  /\ observed' = [observed EXCEPT ![<<id, sessionSkill>>] =
                    @ \cup {Run(id, kills, timeTics, sessionSkill)}]
  /\ UNCHANGED sessionSkill
  /\ UNCHANGED outsideAgg

NextAgg ==
  \/ \E skill \in Skills : AggNextSession(skill)
  \/ \E id \in LevelIds, kills \in Kills, timeTics \in TimeTics : AggLevel(id, kills, timeTics)

SpecAgg == InitAgg /\ [][NextAgg]_aggVars

\* the retained run of a pair is the best of the runs R
BestOf(r, R) ==
  /\ r \in R
  /\ \A o \in R : o.kills <= r.kills
  /\ \A o \in R : o.kills = r.kills => r.timeTics <= o.timeTics

\* C14: for every (level id, skill) pair with at least one run, the map
\* holds exactly one of the observed runs of the pair, one with the most
\* kills and, among those, the least timeTics; a pair without runs has no
\* entry; an entry is replaced only by a run with strictly more kills, or
\* with equal kills and strictly less time.
C14_BestRunRetained ==
  [][/\ \A id \in LevelIds, skill \in Skills :
          LET r == bestByLevelSkill'[Key(id, skill)]
              R == observed'[<<id, skill>>] IN
          IF R = {} THEN ~r.present ELSE BestOf(r, R)
     /\ \A k \in Keys :
          (bestByLevelSkill[k].present /\ bestByLevelSkill'[k] # bestByLevelSkill[k])
            => \/ bestByLevelSkill'[k].kills > bestByLevelSkill[k].kills
               \/ /\ bestByLevelSkill'[k].kills = bestByLevelSkill[k].kills
                  /\ bestByLevelSkill'[k].timeTics < bestByLevelSkill[k].timeTics]_aggVars

\* C14 happens: the examples of the specification, a 10-kill run followed
\* by a 15-kill run, and equal kills with 100 and 80 tics
C14_Witness ==
  /\ observed[<<"MAP01", "HMP">>] = {Run("MAP01", 10, 100, "HMP"), Run("MAP01", 15, 100, "HMP")}
  /\ bestByLevelSkill[Key("MAP01", "HMP")] = Run("MAP01", 15, 100, "HMP")
  /\ observed[<<"E1M1", "UV">>] = {Run("E1M1", 10, 100, "UV"), Run("E1M1", 10, 80, "UV")}
  /\ bestByLevelSkill[Key("E1M1", "UV")] = Run("E1M1", 10, 80, "UV")

\* ======================================================================
\* parseWadDirectory (src/src/lib/wadParser.ts)
\*
\* The archive is a sequence of bytes: a 12-byte header (magic, num_lumps,
\* dir_offset), the lump data, and a directory of 16-byte entries (offset,
\* size, 8 bytes of name).  The call reads what the bytes say.
\* ======================================================================
\* ---------------------------------------------------------------- bounds
\* the most entries a directory of an input holds
MaxLumps == 2

\* ------------------------------------------------------ program constants
HeaderSize == 12
EntrySize == 16
NameSize == 8

\* ----------------------------------------------------------------- bytes
\* a 32-bit little-endian number as 4 bytes, and back (view.getUint32)
U32(v) == <<v % 256, (v \div 256) % 256, (v \div 65536) % 256, (v \div 16777216) % 256>>
GetUint32(d, pos) ==
  d[pos + 1] + 256 * d[pos + 2] + 65536 * d[pos + 3] + 16777216 * d[pos + 4]

\* n zero bytes
Zeros(n) == [i \in 1..n |-> 0]

\* the first n bytes of d, or all of d
Truncated(d, n) == IF n >= Len(d) THEN d ELSE SubSeq(d, 1, n)

\* --------------------------------------------------------------- fixture
\* "IWAD", "PWAD" and the magic of a zip file
Magics == {<<73, 87, 65, 68>>, <<80, 87, 65, 68>>, <<80, 75, 3, 4>>}
\* "MAPINFO\0" and "E1M1\0\0\0\0"
LumpNames == {<<77, 65, 80, 73, 78, 70, 79, 0>>, <<69, 49, 77, 49, 0, 0, 0, 0>>}
\* the lump data between header and directory
LumpData == Zeros(4)
Offsets == {0, 12, 16777216}
Sizes == {0, 4, 40}
DirOffsets == {12, 16, 60}
Cuts == {0, 1, 13, 64}

\* the directories: up to MaxLumps entries
DirEntries == [offset : Offsets, size : Sizes, name : LumpNames]
Directories == UNION {[1..n -> DirEntries] : n \in 0..MaxLumps}

RECURSIVE EntryBytes(_)
EntryBytes(dir) ==
  IF dir = <<>> THEN <<>>
  ELSE U32(Head(dir).offset) \o U32(Head(dir).size) \o Head(dir).name \o EntryBytes(Tail(dir))

\* an archive as a writer lays it out, of which cut bytes are lost at the end
Archive(magic, numLumps, dirOffset, dir, cut) ==
  LET whole == magic \o U32(numLumps) \o U32(dirOffset) \o LumpData \o EntryBytes(dir) IN
  Truncated(whole, Len(whole) - cut)

Archives ==
  {Archive(magic, numLumps, dirOffset, dir, cut) :
     magic \in Magics, numLumps \in 0..(MaxLumps + 1), dirOffset \in DirOffsets,
     dir \in Directories, cut \in Cuts}

InitWad ==
  /\ LaterAtRest
  /\ DownloadAtRest
  /\ StatsAtRest
  /\ AggAtRest
  /\ NamesAtRest
  /\ ReaderAtRest
  /\ data \in Archives
  /\ wadPc = "start"
  /\ wadI = 0
  /\ entries = <<>>

\* ------------------------------------------------------------ the parser
\* String.fromCharCode(...data.slice(0, 4)) is "IWAD" or "PWAD"
MagicIsWad(d) ==
  SubSeq(d, 1, 4) = <<73, 87, 65, 68>> \/ SubSeq(d, 1, 4) = <<80, 87, 65, 68>>

NumLumps(d) == GetUint32(d, 4)
DirOffset(d) == GetUint32(d, 8)

\* the 8 bytes of the name up to the first null byte
RECURSIVE ReadName(_, _, _)
ReadName(d, pos, j) ==
  IF j >= NameSize \/ d[pos + j + 1] = 0 THEN <<>>
  ELSE <<d[pos + j + 1]>> \o ReadName(d, pos, j + 1)

\* the length check, the magic check, numLumps and dirOffset
WadHeader ==
  /\ wadPc = "start"
  /\ wadPc' = IF Len(data) < HeaderSize \/ ~MagicIsWad(data) THEN "threw" ELSE "loop"
  /\ UNCHANGED <<data, wadI, entries>>
  /\ UNCHANGED outsideWad

\* one turn of the loop: the entry is read and pushed
WadEntry ==
  LET entryOffset == DirOffset(data) + wadI * EntrySize IN
  /\ wadPc = "loop"
  /\ wadI < NumLumps(data)
  /\ entryOffset + EntrySize <= Len(data)
  /\ entries' = Append(entries,
                  [name |-> ReadName(data, entryOffset + 8, 0),
                   offset |-> GetUint32(data, entryOffset),
                   size |-> GetUint32(data, entryOffset + 4)])
  /\ wadI' = wadI + 1
  /\ UNCHANGED <<data, wadPc>>
  /\ UNCHANGED outsideWad

\* the loop ends (i reaches numLumps, or `break`): return entries
WadReturn ==
  /\ wadPc = "loop"
  /\ \/ wadI >= NumLumps(data)
     \/ DirOffset(data) + wadI * EntrySize + EntrySize > Len(data)
  /\ wadPc' = "done"
  /\ UNCHANGED <<data, wadI, entries>>
  /\ UNCHANGED outsideWad

NextWad ==
  \/ WadHeader
  \/ WadEntry
  \/ WadReturn

SpecWad == InitWad /\ [][NextWad]_wadVars

\* C15: for a buffer with a valid header, no record that parseWadDirectory
\* returns has offset + size beyond the length of the buffer.
C15_RecordsInsideBuffer ==
  wadPc = "done"
    => \A k \in 1..Len(entries) : entries[k].offset + entries[k].size <= Len(data)

\* ======================================================================
\* extractLevelNamesFromData (src/src/lib/wadParser.ts)
\*
\* The loop goes over the entries of the directory in their order.  The
\* text of a lump is given by what the patterns of its dialect find in it:
\* the sequence of (map id, level name) matches, in the order of the text.
\* ======================================================================
MapinfoLumps == {"MAPINFO", "ZMAPINFO", "EMAPINFO", "UMAPINFO"}

\* --------------------------------------------------------------- fixture
\* names of entries, as the directory spells them
EntryNames == {"MAPINFO", "zmapinfo", "EMAPINFO", "UMAPINFO", "THINGS"}
\* map ids, as the lumps spell them, and the ids of the result
RawIds == {"MAP01", "map01", "MAP02"}
MapIds == {"MAP01", "MAP02"}
LevelNames == {"Entryway", "Hangar"}

\* toUpperCase
ToUpperCase(s) ==
  CASE s = "map01" -> "MAP01"
    [] s = "zmapinfo" -> "ZMAPINFO"
    [] OTHER -> s

Matches == [id : RawIds, name : LevelNames]
MatchLists == UNION {[1..n -> Matches] : n \in 0..2}

\* the entries with the matches of their text; a lump of size 0 has no text
Lumps ==
  {[name |-> n, size |-> IF m = <<>> THEN z ELSE 1, matches |-> m] :
     n \in EntryNames, z \in {0, 1}, m \in MatchLists}

NoName == [present |-> FALSE, name |-> ""]
Name(n) == [present |-> TRUE, name |-> n]
NoLevels == [id \in MapIds |-> NoName]

InitNames ==
  /\ LaterAtRest
  /\ DownloadAtRest
  /\ StatsAtRest
  /\ AggAtRest
  /\ WadAtRest
  /\ ReaderAtRest
  /\ entry = [name |-> "", size |-> 0, matches |-> <<>>]
  /\ levels = NoLevels

\* ------------------------------------------------------------ the parsers
\* levels.set(mapId, levelName) for every match, in the order of the text
RECURSIVE SetAll(_, _)
SetAll(map, m) ==
  IF m = <<>> THEN map
  ELSE SetAll([map EXCEPT ![ToUpperCase(Head(m).id)] = Name(Head(m).name)], Tail(m))

ParseMapinfo(m) == SetAll(NoLevels, m)
ParseEmapinfo(m) == SetAll(NoLevels, m)
ParseUmapinfo(m) == SetAll(NoLevels, m)

Parsed(e) ==
  IF ToUpperCase(e.name) = "EMAPINFO" THEN ParseEmapinfo(e.matches)
  ELSE IF ToUpperCase(e.name) = "UMAPINFO" THEN ParseUmapinfo(e.matches)
  ELSE ParseMapinfo(e.matches)

\* (mutant) the names of a later lump replace the ones stored
MergeOverwriting(map, parsed) ==
  [id \in MapIds |-> IF parsed[id].present THEN parsed[id] ELSE map[id]]

\* if (!levels.has(mapId)) levels.set(mapId, levelName), for all of parsed
Merge(map, parsed) ==
  [id \in MapIds |-> IF ~map[id].present /\ parsed[id].present THEN parsed[id] ELSE map[id]]

\* mapinfoLumps.includes(entry.name.toUpperCase()) && entry.size > 0
IsMapinfoLump(e) == ToUpperCase(e.name) \in MapinfoLumps /\ e.size > 0

\* one turn of the loop over the entries
ExtractEntry(e) ==
  /\ entry' = e
  /\ levels' = IF IsMapinfoLump(e) THEN Merge(levels, Parsed(e)) ELSE levels
  /\ UNCHANGED outsideNames

NextNames == \E e \in Lumps : ExtractEntry(e)

SpecNames == InitNames /\ [][NextNames]_namesVars

\* the places of the text of a lump that define level id
Defining(m, id) == {i \in 1..Len(m) : ToUpperCase(m[i].id) = id}

\* the last of them
LastDefining(m, id) == CHOOSE i \in Defining(m, id) : \A j \in Defining(m, id) : j <= i

\* C16: a name stored for a level id is never changed by a later lump; an
\* id without a name gets, from a MAPINFO-family lump that defines it, the
\* name of the last match for the id in that lump; any other entry leaves
\* the id without a name.
C16_FirstWriterWins ==
  [][\A id \in MapIds :
       LET e == entry'  D == Defining(e.matches, id) IN
       IF levels[id].present THEN levels'[id] = levels[id]
       ELSE IF ToUpperCase(e.name) \in MapinfoLumps /\ D # {}
       THEN levels'[id] = Name(e.matches[LastDefining(e.matches, id)].name)
       ELSE ~levels'[id].present]_namesVars

\* C16 happens: the lump dealt with last defines MAP01 twice, ending with
\* "Hangar", and the name stored is the "Entryway" of an earlier lump
C16_Witness ==
  /\ ToUpperCase(entry.name) = "ZMAPINFO"
  /\ entry.matches = <<[id |-> "MAP01", name |-> "Entryway"], [id |-> "map01", name |-> "Hangar"]>>
  /\ levels["MAP01"] = Name("Entryway")
  /\ levels["MAP02"] = Name("Hangar")

\* ======================================================================
\* The save readers: parseSaveForStats (src/src/composables/useStats.ts)
\* and parseSaveFile (src/src/composables/useSaves.ts)
\*
\* A .zds file is written by the game, not by the launcher: the readers
\* get whatever JSON value each field holds.
\* ======================================================================
\* ----------------------------------------------------------- JSON values
\* A value of JavaScript: undefined (the field is absent), null, a number
\* (an integer n, n + 0.5, or NaN), a string, a boolean.
JS(type, kind, n, s) == [t |-> type, kind |-> kind, n |-> n, s |-> s]
Undefined == JS("undefined", "", 0, "")
Null == JS("null", "", 0, "")
Num(n) == JS("number", "int", n, "")
Half(n) == JS("number", "half", n, "")
NaN == JS("number", "nan", 0, "")
Str(s) == JS("string", "", 0, s)
Bool(b) == JS("boolean", "", IF b THEN 1 ELSE 0, "")

\* what a field of a save may hold
FieldValues ==
  { Undefined, Null, Num(-5), Num(0), Num(2), Num(4), Num(7), Half(1),
    Str("3"), Str("abc"), Str(""), Bool(TRUE) }

\* Number(v)
Number(v) ==
  CASE v.t = "number" -> v
    [] v.t = "undefined" -> NaN
    [] v.t = "null" -> Num(0)
    [] v.t = "boolean" -> Num(v.n)
    [] v.t = "string" ->
         (CASE v.s = "" -> Num(0)
            [] v.s = "3" -> Num(3)
            [] OTHER -> NaN)

\* v ?? d
Nullish(v, d) == IF v.t \in {"undefined", "null"} THEN d ELSE v

\* v || d
Falsy(v) ==
  \/ v.t \in {"undefined", "null"}
  \/ v.t = "number" /\ (v.kind = "nan" \/ (v.kind = "int" /\ v.n = 0))
  \/ v.t = "string" /\ v.s = ""
  \/ v.t = "boolean" /\ v.n = 0
OrElse(v, d) == IF Falsy(v) THEN d ELSE v

\* SKILL_FROM_NUMBER[skillNum] of statsSchema.ts: the five skills in the
\* order of the game's numbering
SkillLevels == <<"ITYTD", "HNTR", "HMP", "UV", "NM">>
SkillFromNumber(num) ==
  IF num.kind = "int" /\ num.n \in 0..4 THEN Str(SkillLevels[num.n + 1]) ELSE Undefined

\* --------------------------------------------------------------- fixture
StatFields ==
  {"killcount", "totalkills", "itemcount", "totalitems", "secretcount", "totalsecrets",
   "leveltime"}

\* a level of statistics.levels: one field holds any value, the others 1
SaveLevels ==
  {[f \in StatFields |-> IF f = g THEN v ELSE Num(1)] : g \in StatFields, v \in FieldValues}

\* the .zds files: not a zip archive, a zip without globals.json, globals
\* without statistics.levels, and globals with one level
Containers ==
  {[kind |-> k, skill |-> s, level |-> l] :
     k \in {"binary", "noglobals"}, s \in {Undefined}, l \in {[f \in StatFields |-> Undefined]}}
  \cup
  {[kind |-> "nolevels", skill |-> s, level |-> l] :
     s \in FieldValues, l \in {[f \in StatFields |-> Undefined]}}
  \cup
  {[kind |-> "levels", skill |-> s, level |-> l] : s \in FieldValues, l \in SaveLevels}

Pending == [returned |-> FALSE, null |-> FALSE, skill |-> Undefined, levels |-> <<>>]
Returned(skill, ls) == [returned |-> TRUE, null |-> FALSE, skill |-> skill, levels |-> ls]
ReturnedNull == [returned |-> TRUE, null |-> TRUE, skill |-> Undefined, levels |-> <<>>]

InitReader ==
  /\ LaterAtRest
  /\ DownloadAtRest
  /\ StatsAtRest
  /\ AggAtRest
  /\ WadAtRest
  /\ NamesAtRest
  /\ container \in Containers
  /\ statsOut = Pending
  /\ savesOut = Pending

\* ------------------------------------------------------------ useStats.ts
\* kills: Number(level.killcount ?? 0), ... timeTics: Number(level.leveltime ?? 0)
LevelPlayStats(level) ==
  [ kills |-> Number(Nullish(level["killcount"], Num(0))),
    totalKills |-> Number(Nullish(level["totalkills"], Num(0))),
    items |-> Number(Nullish(level["itemcount"], Num(0))),
    totalItems |-> Number(Nullish(level["totalitems"], Num(0))),
    secrets |-> Number(Nullish(level["secretcount"], Num(0))),
    totalSecrets |-> Number(Nullish(level["totalsecrets"], Num(0))),
    timeTics |-> Number(Nullish(level["leveltime"], Num(0))) ]

\* const skillNum = Number(globals?.servercvars?.skill ?? 2);
\* const skill = SKILL_FROM_NUMBER[skillNum] ?? "HMP"
StatsSkill(v) == Nullish(SkillFromNumber(Number(Nullish(v, Num(2)))), Str("HMP"))

\* parseSaveForStats(savePath, saveFileName)
ReadForStats ==
  /\ ~statsOut.returned
  /\ statsOut' = IF container.kind # "levels" THEN ReturnedNull
                 ELSE Returned(StatsSkill(container.skill), <<LevelPlayStats(container.level)>>)
  /\ UNCHANGED <<container, savesOut>>
  /\ UNCHANGED outsideReader

\* ------------------------------------------------------------ useSaves.ts
\* killcount: Number(level.killcount || 0), ... leveltime: Number(level.leveltime || 0)
LevelStats(level) ==
  [ kills |-> Number(OrElse(level["killcount"], Num(0))),
    totalKills |-> Number(OrElse(level["totalkills"], Num(0))),
    items |-> Number(OrElse(level["itemcount"], Num(0))),
    totalItems |-> Number(OrElse(level["totalitems"], Num(0))),
    secrets |-> Number(OrElse(level["secretcount"], Num(0))),
    totalSecrets |-> Number(OrElse(level["totalsecrets"], Num(0))),
    timeTics |-> Number(OrElse(level["leveltime"], Num(0))) ]

\* const skill = Number(globals?.servercvars?.skill ?? 2)
SavesSkill(v) == Number(Nullish(v, Num(2)))

\* parseSaveFile(path)
ReadSaveFile ==
  /\ ~savesOut.returned
  /\ savesOut' =
       CASE container.kind \in {"binary", "noglobals"} -> Returned(Num(2), <<>>)
         [] container.kind = "nolevels" -> Returned(SavesSkill(container.skill), <<>>)
         [] OTHER -> Returned(SavesSkill(container.skill), <<LevelStats(container.level)>>)
  /\ UNCHANGED <<container, statsOut>>
  /\ UNCHANGED outsideReader

NextReader ==
  \/ ReadForStats
  \/ ReadSaveFile

SpecReader == InitReader /\ [][NextReader]_readerVars

\* the skill field holds no number of 0..4
OutOfRange(v) == v.t \in {"undefined", "null"} \/ (v.t = "number" /\ ~(v.kind = "int" /\ v.n \in 0..4))

\* C17: the skill that a save reader returns is one of the five skills, and
\* it is the middle one (HMP, number 2) when the skill field is absent or
\* outside 0..4; for parseSaveForStats and for parseSaveFile.
C17_SkillClamped ==
  /\ (statsOut.returned /\ ~statsOut.null)
       => /\ \E i \in 1..5 : statsOut.skill = Str(SkillLevels[i])
          /\ OutOfRange(container.skill) => statsOut.skill = Str("HMP")
  /\ savesOut.returned
       => /\ \E n \in 0..4 : savesOut.skill = Num(n)
          /\ OutOfRange(container.skill) => savesOut.skill = Num(2)

\* a JavaScript number that is a non-negative integer
NonNegativeInteger(v) == v.t = "number" /\ v.kind = "int" /\ v.n >= 0

\* the field of the save that a field of the result is made of
SourceField(f) ==
  CASE f = "kills" -> "killcount" [] f = "totalKills" -> "totalkills"
    [] f = "items" -> "itemcount" [] f = "totalItems" -> "totalitems"
    [] f = "secrets" -> "secretcount" [] f = "totalSecrets" -> "totalsecrets"
    [] OTHER -> "leveltime"

ResultFields == {"kills", "totalKills", "items", "totalItems", "secrets", "totalSecrets", "timeTics"}

\* C18: every numeric field of every level that a save reader returns is a
\* non-negative integer, whatever the save holds, and 0 for an absent field.
C18_NonNegativeIntegers ==
  \A out \in {statsOut, savesOut} :
    out.returned =>
      \A k \in 1..Len(out.levels), f \in ResultFields :
        /\ NonNegativeInteger(out.levels[k][f])
        /\ container.level[SourceField(f)] = Undefined => out.levels[k][f] = Num(0)

\* ======================================================================
\* parseRawLog and parseLogLine (useGameplayLog), with the PATTERNS of
\* gameplayLogSchema
\*
\* A text is a sequence of pieces of console output; a pattern matches a
\* text when the pieces can be laid out along it.
\* ======================================================================
\* ---------------------------------------------------------------- bounds
\* the most pieces of a text, and the most lines of a log of several lines
MaxPieces == 3
MaxLines == 2

\* --------------------------------------------------------------- fixture
Pieces ==
  { "MAP1", "map1", "E1M1", "1", " ", "\n", "-", "Player ", "was ", "Picked up ", ".",
    "A secret is revealed!", "x" }
LogTexts == UNION {[1..n -> Pieces] : n \in 0..MaxPieces}

\* one text of every kind: level enter, death, pickup, secret, other, blank
SampleTexts ==
  { <<"MAP1", "-", "x">>, <<"Player ", "x", ".">>, <<"Picked up ", "x", ".">>,
    <<"A secret is revealed!">>, <<"x">>, <<" ">>, <<>> }
LogTimes == {0, 500}

LogLines(texts) == {<<time, text>> : time \in LogTimes, text \in texts}
Logs ==
  {<<l>> : l \in LogLines(LogTexts)}
    \cup UNION {[1..n -> LogLines(SampleTexts)] : n \in 0..MaxLines}

InitLog ==
  /\ GZAtRest
  /\ LoadAtRest
  /\ SchemaAtRest
  /\ DownloadAtRest
  /\ StatsAtRest
  /\ AggAtRest
  /\ WadAtRest
  /\ NamesAtRest
  /\ ReaderAtRest
  /\ lines \in Logs
  /\ kept = <<>>
  /\ events = <<>>
  /\ logPc = "start"

\* ----------------------------------------------------------- the patterns
\* the flag i
LowerCase(piece) ==
  CASE piece = "MAP1" -> "map1"
    [] piece = "E1M1" -> "e1m1"
    [] piece = "Player " -> "player "
    [] piece = "Picked up " -> "picked up "
    [] piece = "A secret is revealed!" -> "a secret is revealed!"
    [] OTHER -> piece

\* \s, \d, and what . does not match
IsSpace(piece) == piece \in {" ", "\n"}
IsDigit(piece) == piece = "1"
IsLineEnd(piece) == piece = "\n"

\* (.+) laid over the pieces a..b of text
AnyText(text, a, b) == a <= b /\ \A i \in a..b : ~IsLineEnd(text[i])

\* LEVEL_ENTER: /^(MAP\d+|E\dM\d+)\s*-\s*(.+)$/i
MatchesLevelEnter(text) ==
  \E d \in 1..Len(text), dash \in 2..Len(text), c \in 2..Len(text) :
    /\ LowerCase(text[1]) \in {"map1", "e1m1"}
    /\ \A i \in 2..d : IsDigit(text[i])
    /\ d < dash /\ \A i \in (d + 1)..(dash - 1) : IsSpace(text[i])
    /\ text[dash] = "-"
    /\ dash <= c /\ \A i \in (dash + 1)..c : IsSpace(text[i])
    /\ AnyText(text, c + 1, Len(text))

\* DEATH: /^Player (?:was |let |)(.+)\.$/i
MatchesDeath(text) ==
  /\ Len(text) >= 3
  /\ LowerCase(text[1]) = "player "
  /\ text[Len(text)] = "."
  /\ \E g \in {0, 1} :
       /\ g = 1 => LowerCase(text[2]) \in {"was ", "let "}
       /\ AnyText(text, 2 + g, Len(text) - 1)

\* PICKUP: /^Picked up (?:a |an |the )?(.+)\.$/i
MatchesPickup(text) ==
  /\ Len(text) >= 3
  /\ LowerCase(text[1]) = "picked up "
  /\ text[Len(text)] = "."
  /\ \E g \in {0, 1} :
       /\ g = 1 => LowerCase(text[2]) \in {"a ", "an ", "the "}
       /\ AnyText(text, 2 + g, Len(text) - 1)

\* SECRET: /^A secret is revealed!$/i
MatchesSecret(text) == Len(text) = 1 /\ LowerCase(text[1]) = "a secret is revealed!"

\* ---------------------------------------------------------- parseLogLine
Event(type, time, text) == [type |-> type, time_ms |-> time, text |-> text]

\* (mutant) the death pattern is not tried
ParseLogLineWithoutDeath(text, time) ==
  IF MatchesLevelEnter(text) THEN Event("level_enter", time, text)
  ELSE IF MatchesPickup(text) THEN Event("pickup", time, text)
  ELSE IF MatchesSecret(text) THEN Event("secret", time, text)
  ELSE Event("message", time, text)

ParseLogLine(text, time) ==
  IF MatchesLevelEnter(text) THEN Event("level_enter", time, text)
  ELSE IF MatchesDeath(text) THEN Event("death", time, text)
  ELSE IF MatchesPickup(text) THEN Event("pickup", time, text)
  ELSE IF MatchesSecret(text) THEN Event("secret", time, text)
  ELSE Event("message", time, text)

\* ----------------------------------------------------------- parseRawLog
\* text.trim().length > 0
NotBlank(text) == \E i \in 1..Len(text) : ~IsSpace(text[i])

\* (mutant) filter keeps only the lines that some pattern matches
MatchedLines(ls) ==
  SelectSeq(ls, LAMBDA l : MatchesLevelEnter(l[2]) \/ MatchesDeath(l[2])
                             \/ MatchesPickup(l[2]) \/ MatchesSecret(l[2]))

\* lines.filter(([, text]) => text.trim().length > 0)
NonBlankLines(ls) == SelectSeq(ls, LAMBDA l : NotBlank(l[2]))

LogFilter ==
  /\ logPc = "start"
  /\ kept' = NonBlankLines(lines)
  /\ logPc' = "filtered"
  /\ UNCHANGED <<lines, events>>
  /\ UNCHANGED outsideLog

\* .map(([time_ms, text]) => parseLogLine(text, time_ms))
LogMap ==
  /\ logPc = "filtered"
  /\ events' = [k \in 1..Len(kept) |-> ParseLogLine(kept[k][2], kept[k][1])]
  /\ logPc' = "done"
  /\ UNCHANGED <<lines, kept>>
  /\ UNCHANGED outsideLog

NextLog ==
  \/ LogFilter
  \/ LogMap

SpecLog == InitLog /\ [][NextLog]_logVars

\* the place in lines of the k-th line that is not blank
KthLine(k) ==
  CHOOSE i \in 1..Len(lines) :
    /\ NotBlank(lines[i][2])
    /\ Cardinality({j \in 1..i : NotBlank(lines[j][2])}) = k

NoPatternMatches(text) ==
  ~MatchesLevelEnter(text) /\ ~MatchesDeath(text) /\ ~MatchesPickup(text) /\ ~MatchesSecret(text)

\* C19: parseRawLog returns one event for every line that is not blank, in
\* the order of the lines, each with the time_ms and the text of its line;
\* a line that no pattern matches is there as a message event.
C19_OneEventPerLine ==
  logPc = "done" =>
    /\ Len(events) = Cardinality({i \in 1..Len(lines) : NotBlank(lines[i][2])})
    /\ \A k \in 1..Len(events) :
         /\ events[k].time_ms = lines[KthLine(k)][1]
         /\ events[k].text = lines[KthLine(k)][2]
         /\ events[k].type \in {"level_enter", "death", "pickup", "secret", "message"}
         /\ NoPatternMatches(lines[KthLine(k)][2]) => events[k].type = "message"

\* C19 happens: a log of two lines of which the first is blank and the
\* second matches no pattern
C19_Witness ==
  /\ logPc = "done"
  /\ Len(lines) = 2
  /\ ~NotBlank(lines[1][2])
  /\ NotBlank(lines[2][2]) /\ NoPatternMatches(lines[2][2])
  /\ Len(events) = 1 /\ events[1].type = "message"

\* C20: the type of an event is level_enter if the level-enter pattern
\* matches its text, else death if the death pattern matches, else pickup
\* if the pickup pattern matches, else secret if the secret pattern
\* matches, else message; whatever lines come before it.
C20_PriorityChain ==
  logPc = "done" =>
    \A k \in 1..Len(events) :
      LET text == events[k].text  type == events[k].type IN
      /\ MatchesLevelEnter(text) => type = "level_enter"
      /\ (~MatchesLevelEnter(text) /\ MatchesDeath(text)) => type = "death"
      /\ (~MatchesLevelEnter(text) /\ ~MatchesDeath(text) /\ MatchesPickup(text))
           => type = "pickup"
      /\ (~MatchesLevelEnter(text) /\ ~MatchesDeath(text) /\ ~MatchesPickup(text)
            /\ MatchesSecret(text)) => type = "secret"
      /\ NoPatternMatches(text) => type = "message"
      /\ \A j \in 1..Len(events) : events[j].text = text => events[j].type = type

\* C20 happens: a death follows a level enter in one log
C20_Witness ==
  /\ logPc = "done"
  /\ Len(events) = 2
  /\ events[1].type = "level_enter" /\ MatchesLevelEnter(lines[1][2])
  /\ events[2].type = "death" /\ MatchesDeath(lines[2][2])

\* ======================================================================
\* The game engine (src/src/composables/useGZDoom.ts)
\*
\* handlePlay (App.vue) calls launch; launch starts the engine through the
\* backend and pollForExit sets an interval whose callback asks the
\* backend whether a process with the engine's name runs.  A launch is an
\* action per await; a callback of the interval is a tick, an action per
\* await as well.  Several ticks of one interval may be under way.
\* ======================================================================
\* ---------------------------------------------------------------- bounds
\* the callbacks of one interval that may be under way at a time
MaxTicks == 2

\* Two play requests of the user interface, the second one made while the
\* first is under way or after it.
Launches == {1, 2}

\* no callback of an interval is under way
NoTicks == [check |-> 0, log |-> 0, save |-> 0]

\* every part of the launcher declared before the engine, at rest
OlderAtRest ==
  /\ DownloadAtRest
  /\ StatsAtRest
  /\ AggAtRest
  /\ WadAtRest
  /\ NamesAtRest
  /\ ReaderAtRest
  /\ LogAtRest

InitGZ ==
  /\ OlderAtRest
  /\ LoadAtRest
  /\ SchemaAtRest
  /\ isRunning = FALSE
  /\ currentSession = 0
  /\ timers = {}
  /\ procs = {}
  /\ launches = [l \in Launches |-> "idle"]
  /\ ticks = [p \in Launches |-> NoTicks]
  /\ saved = [p \in Launches |-> 0]

\* ----------------------------------------------------------------- launch
\* handlePlay: the checks of the engine path and of the IWAD pass,
\* downloadWithDeps has resolved, launch is called and mkdir(saveDir) is
\* pending.  Play requests are numbered in the order in which they are made.
Play(l) ==
  /\ launches[l] = "idle"
  /\ l > 1 => launches[l - 1] # "idle"
  /\ launches' = [launches EXCEPT ![l] = "mkdir"]
  /\ UNCHANGED <<isRunning, currentSession, timers, procs, ticks, saved>>
  /\ UNCHANGED outsideGZ

\* mkdir resolves (or rejects because the folder exists):
\* currentSession.value = {...}; invoke("launch_gzdoom") is pending.  When
\* mkdir rejects otherwise, launch throws.
LaunchMkdir(l, ok) ==
  /\ launches[l] = "mkdir"
  /\ IF ok
     THEN /\ currentSession' = l
          /\ launches' = [launches EXCEPT ![l] = "invoke"]
     ELSE /\ launches' = [launches EXCEPT ![l] = "threw"]
          /\ UNCHANGED currentSession
  /\ UNCHANGED <<isRunning, timers, procs, ticks, saved>>
  /\ UNCHANGED outsideGZ

\* the backend has started the engine and invoke resolves:
\* isRunning.value = true; pollForExit() sets the interval.  When invoke
\* rejects, launch throws.
LaunchInvoke(l, ok) ==
  /\ launches[l] = "invoke"
  /\ IF ok
     THEN /\ procs' = procs \cup {l}
          /\ isRunning' = TRUE
          /\ timers' = timers \cup {l}
          /\ launches' = [launches EXCEPT ![l] = "done"]
     ELSE /\ launches' = [launches EXCEPT ![l] = "threw"]
          /\ UNCHANGED <<isRunning, timers, procs>>
  /\ UNCHANGED <<currentSession, ticks, saved>>
  /\ UNCHANGED outsideGZ

\* the player quits the engine that launch l started
EngineExit(l) ==
  /\ l \in procs
  /\ procs' = procs \ {l}
  /\ UNCHANGED <<isRunning, currentSession, timers, launches, ticks, saved>>
  /\ UNCHANGED outsideGZ

\* ------------------------------------------------------------ pollForExit
\* a callback of poller p moves on from one await to the next, or ends
Move(p, from, to) ==
  ticks' = [ticks EXCEPT ![p] =
              [k \in DOMAIN @ |-> @[k] - (IF k = from THEN 1 ELSE 0) + (IF k = to THEN 1 ELSE 0)]]

\* the interval of poller p fires: invoke("is_process_running") is pending
TickFire(p) ==
  /\ p \in timers
  /\ ticks[p].check + ticks[p].log + ticks[p].save < MaxTicks
  /\ Move(p, "none", "check")
  /\ UNCHANGED <<isRunning, currentSession, timers, procs, launches, saved>>
  /\ UNCHANGED outsideGZ

\* (mutant) the interval is not cleared when the engine is gone
TickCheckKeepsPolling(p, ok) ==
  /\ ticks[p].check > 0
  /\ IF ~ok
     THEN /\ timers' = timers \ {p}
          /\ isRunning' = FALSE
          /\ currentSession' = 0
          /\ Move(p, "check", "none")
     ELSE IF procs # {}
     THEN /\ Move(p, "check", "none")
          /\ UNCHANGED <<isRunning, currentSession, timers>>
     ELSE /\ isRunning' = FALSE
          /\ Move(p, "check", IF currentSession # 0 THEN "log" ELSE "none")
          /\ UNCHANGED <<currentSession, timers>>
  /\ UNCHANGED <<procs, launches, saved>>
  /\ UNCHANGED outsideGZ

\* is_process_running settles.  It rejects: the catch clears the interval,
\* isRunning and currentSession.  It resolves with true (a process with the
\* engine's name runs): nothing.  It resolves with false: clearInterval,
\* isRunning.value = false and, with a session, invoke("get_gzdoom_log").
TickCheck(p, ok) ==
  /\ ticks[p].check > 0
  /\ IF ~ok
     THEN /\ timers' = timers \ {p}
          /\ isRunning' = FALSE
          /\ currentSession' = 0
          /\ Move(p, "check", "none")
     ELSE IF procs # {}
     THEN /\ Move(p, "check", "none")
          /\ UNCHANGED <<isRunning, currentSession, timers>>
     ELSE /\ timers' = timers \ {p}
          /\ isRunning' = FALSE
          /\ Move(p, "check", IF currentSession # 0 THEN "log" ELSE "none")
          /\ UNCHANGED currentSession
  /\ UNCHANGED <<procs, launches, saved>>
  /\ UNCHANGED outsideGZ

\* what get_gzdoom_log may bring: lines, null or no line, a rejection
LogResults == {"lines", "empty", "failed"}

\* get_gzdoom_log settles.  With lines, saveGameplayLog is called with the
\* fields of currentSession.value (reading them throws when another tick
\* has set it to null: the inner catch logs) and is pending; otherwise
\* currentSession.value = null.
TickLog(p, log) ==
  /\ ticks[p].log > 0
  /\ IF log = "lines" /\ currentSession # 0
     THEN /\ saved' = [saved EXCEPT ![p] = @ + 1]
          /\ Move(p, "log", "save")
          /\ UNCHANGED currentSession
     ELSE /\ currentSession' = 0
          /\ Move(p, "log", "none")
          /\ UNCHANGED saved
  /\ UNCHANGED <<isRunning, timers, procs, launches>>
  /\ UNCHANGED outsideGZ

\* saveGameplayLog settles (a rejection is logged):
\* currentSession.value = null
TickSave(p) ==
  /\ ticks[p].save > 0
  /\ currentSession' = 0
  /\ Move(p, "save", "none")
  /\ UNCHANGED <<isRunning, timers, procs, launches, saved>>
  /\ UNCHANGED outsideGZ

NextGZ ==
  \/ \E l \in Launches : Play(l)
  \/ \E l \in Launches, ok \in BOOLEAN : LaunchMkdir(l, ok)
  \/ \E l \in Launches, ok \in BOOLEAN : LaunchInvoke(l, ok)
  \/ \E l \in Launches : EngineExit(l)
  \/ \E p \in Launches : TickFire(p)
  \/ \E p \in Launches, ok \in BOOLEAN : TickCheck(p, ok)
  \/ \E p \in Launches, log \in LogResults : TickLog(p, log)
  \/ \E p \in Launches : TickSave(p)

SpecGZ == InitGZ /\ [][NextGZ]_gzVars

\* a step of poller p: its interval fires, or a call of the backend that
\* one of its ticks waits for settles
PollerStep(p) ==
  \/ TickFire(p)
  \/ \E ok \in BOOLEAN : TickCheck(p, ok)
  \/ \E log \in LogResults : TickLog(p, log)
  \/ TickSave(p)

\* An interval fires as long as it is not cleared and the calls of the
\* backend settle: a poller that can take a step takes one.
FairGZ == \A p \in Launches : WF_gzVars(PollerStep(p))

SpecGZLive == SpecGZ /\ FairGZ

\* C24: at most one engine instance is active at a time: no launch is
\* carried out while isRunning is true, so there is at most one engine
\* process and at most one exit poller.
C24_SingleEngine ==
  /\ Cardinality(procs) <= 1
  /\ Cardinality(timers) <= 1

\* C29: saveGameplayLog is called at most once by the poller of a launch,
\* however the callbacks of its interval overlap.
C29_LogSavedOnce ==
  \A p \in Launches : saved[p] <= 1

\* the exit of the engine is detected and dealt with
Cleared ==
  /\ ~isRunning
  /\ timers = {}
  /\ currentSession = 0

\* C30: after a successful launch, once no engine process runs while the
\* poller of the launch is active, eventually isRunning is false, every
\* interval is cleared and currentSession is null (unless an engine has
\* been launched again by then); and isRunning becomes true only by a
\* launch.
C30_ExitDetected ==
  /\ \A l \in Launches :
       (launches[l] = "done" /\ l \in timers /\ procs = {}) ~> (Cleared \/ procs # {})
  /\ [][(isRunning' /\ ~isRunning)
          => \E l \in Launches : launches[l] = "invoke" /\ launches'[l] = "done"]_gzVars

\* C30 happens: the engine of a launch has gone, the poller has found it
\* gone and everything is cleared
C30_Witness ==
  \E l \in Launches :
    /\ launches[l] = "done"
    /\ l \notin procs
    /\ Cleared
    /\ \A p \in Launches : ticks[p] = NoTicks

\* ======================================================================
\* loadState (src/src/composables/useDownload.ts)
\*
\* One loadState call over a library folder in which launcher-downloads.json
\* is missing, cannot be read, is no JSON, or is a JSON object with a
\* version and entries.
\* ======================================================================
\* an entry that z.object({filename: z.string().min(1), ...}) refuses
Malformed == [present |-> TRUE, filename |-> ""]

ManifestFiles == {"missing", "unreadable", "garbled", "v1", "v2"}

\* the entries that a file may hold for the slugs of the catalog
StoredManifests == [CatalogSlugs -> {NoRecord, Malformed}] \cup
                   {[s \in CatalogSlugs |-> IF s \in S THEN Record(s)
                                            ELSE IF s \in M THEN Malformed ELSE NoRecord] :
                      S \in SUBSET {"a", "b"}, M \in SUBSET {"c"}}

\* what downloads.value holds when loadState is called
Memories == {EmptyManifest, [EmptyManifest EXCEPT !["d"] = Record("d")]}

IdleLoad == [pc |-> "idle", outcome |-> "none", err |-> "none"]

InitLoad ==
  /\ StatsAtRest
  /\ AggAtRest
  /\ WadAtRest
  /\ NamesAtRest
  /\ ReaderAtRest
  /\ LogAtRest
  /\ GZAtRest
  /\ SchemaAtRest
  /\ manifestFile \in ManifestFiles
  /\ diskManifest \in (IF manifestFile \in {"v1", "v2"} THEN StoredManifests ELSE {EmptyManifest})
  /\ downloads \in Memories
  /\ load = IdleLoad
  /\ downloading = {}
  /\ downloadProgress = [s \in CatalogSlugs |-> NoProgress]
  /\ finalFile = [s \in CatalogSlugs |-> NoFile]
  /\ partFile = [s \in CatalogSlugs |-> NoFile]
  /\ calls = [c \in Calls |-> IdleCall]

\* isNotFoundError(e) of lib/errors.ts: the error of a file that is not there
IsNotFoundError(e) == e = "notfound"

\* LauncherDownloadsSchema.safeParse(...).success: version is the literal 1
\* and every entry of downloads is a well-formed record
LauncherDownloadsSchema(file, stored) ==
  /\ file = "v1"
  /\ \A s \in CatalogSlugs : stored[s].present => stored[s].filename # ""

\* loadState is called: join resolves, readTextFile is pending
LoadState ==
  /\ load.pc = "idle"
  /\ load' = [load EXCEPT !.pc = "read"]
  /\ UNCHANGED <<manifestFile, vars>>
  /\ UNCHANGED outsideLoad

\* (mutant) the catch swallows every error
LoadReadSwallowing ==
  /\ load.pc = "read"
  /\ IF manifestFile \in {"v1", "v2"} /\ LauncherDownloadsSchema(manifestFile, diskManifest)
     THEN downloads' = diskManifest
     ELSE UNCHANGED downloads
  /\ load' = [load EXCEPT !.pc = "done", !.outcome = "ok"]
  /\ UNCHANGED <<manifestFile, downloading, downloadProgress, diskManifest, finalFile, partFile, calls>>
  /\ UNCHANGED outsideLoad

\* readTextFile settles; JSON.parse; safeParse; downloads.value = parsed.data
\* or console.error; catch (e) { if (!isNotFoundError(e)) throw e }
LoadRead ==
  LET e == CASE manifestFile = "missing" -> "notfound"
             [] manifestFile = "unreadable" -> "io"
             [] manifestFile = "garbled" -> "syntax"
             [] OTHER -> "none" IN
  /\ load.pc = "read"
  /\ IF e # "none"
     THEN /\ load' = IF IsNotFoundError(e)
                     THEN [load EXCEPT !.pc = "done", !.outcome = "ok"]
                     ELSE [load EXCEPT !.pc = "done", !.outcome = "threw", !.err = e]
          /\ UNCHANGED downloads
     ELSE /\ load' = [load EXCEPT !.pc = "done", !.outcome = "ok"]
          /\ IF LauncherDownloadsSchema(manifestFile, diskManifest)
             THEN downloads' = diskManifest
             ELSE UNCHANGED downloads
  /\ UNCHANGED <<manifestFile, downloading, downloadProgress, diskManifest, finalFile, partFile, calls>>
  /\ UNCHANGED outsideLoad

NextLoad ==
  \/ LoadState
  \/ LoadRead

SpecLoad == InitLoad /\ [][NextLoad]_<<vars, loadVars>>

\* C21: loadState raises nothing when the manifest file is missing; every
\* other failure of the read (the file cannot be read, it is no JSON) is
\* thrown to the caller as the error it is; in both cases downloads.value
\* stays as it was.
C21_MissingManifestIsEmpty ==
  [][(load.pc = "read" /\ load'.pc = "done")
       => /\ manifestFile = "missing"
               => load'.outcome = "ok" /\ downloads' = downloads
          /\ manifestFile = "unreadable"
               => load'.outcome = "threw" /\ load'.err = "io" /\ downloads' = downloads
          /\ manifestFile = "garbled"
               => load'.outcome = "threw" /\ load'.err = "syntax" /\ downloads' = downloads
    ]_<<vars, loadVars>>

\* C21 happens: loadState has returned over a missing file and the record
\* that was in memory is still there
C21_Witness ==
  /\ load.pc = "done" /\ load.outcome = "ok"
  /\ manifestFile = "missing"
  /\ downloads["d"] = Record("d")

\* C22: when the manifest file holds a malformed entry together with valid
\* entries, loadState loads every valid entry.
C22_ValidEntriesLoaded ==
  (/\ load.pc = "done"
   /\ manifestFile = "v1"
   /\ \E s \in CatalogSlugs : diskManifest[s] = Malformed)
    => \A s \in CatalogSlugs : diskManifest[s] = Record(s) => downloads[s] = Record(s)

\* ======================================================================
\* deleteWad (src/src/composables/useDownload.ts)
\*
\* deleteWad calls over a library in which some of the slugs of the
\* manifest have lost their file (removed by hand): remove rejects there.
\* ======================================================================
\* the manifests and the folders the calls may find
Installed == {[s \in CatalogSlugs |-> IF s \in S THEN Record(s) ELSE NoRecord] : S \in SUBSET {"a", "b"}}
Folders == {[s \in CatalogSlugs |-> IF s \in S THEN PlacedFile("PK") ELSE NoFile] : S \in SUBSET {"a", "b"}}

InitDelete ==
  /\ LaterAtRest
  /\ StatsAtRest
  /\ AggAtRest
  /\ WadAtRest
  /\ NamesAtRest
  /\ ReaderAtRest
  /\ downloads \in Installed
  /\ diskManifest = downloads
  /\ finalFile \in Folders
  /\ downloading = {}
  /\ downloadProgress = [s \in CatalogSlugs |-> NoProgress]
  /\ partFile = [s \in CatalogSlugs |-> NoFile]
  /\ calls = [c \in Calls |-> IdleCall]

NextDelete ==
  \E c \in Calls :
    \/ \E s \in {"a", "b"} : StartDelete(c, s)
    \/ DelRemove(c)
    \/ SaveJoin(c)
    \/ SaveWrite(c)
    \/ SaveWriteFail(c)

SpecDelete == InitDelete /\ [][NextDelete]_vars

\* C23: deleteWad of a slug that is not in the manifest returns and changes
\* neither the manifest nor a file; of a slug that is in the manifest it
\* deletes the record, whether remove resolves or rejects, goes on to
\* saveState with a manifest that lacks the slug, and when the write is
\* done the manifest on disk lacks the slug.
C23_DeleteRemovesRecord ==
  [][\A c \in Calls :
       LET s == calls'[c].cur IN
       /\ (calls[c].pc = "idle" /\ calls'[c].op = "delete" /\ ~downloads[s].present)
            => /\ calls'[c].pc = "done" /\ calls'[c].outcome = "ok"
               /\ UNCHANGED <<downloads, diskManifest, finalFile, partFile>>
       /\ (calls[c].pc = "idle" /\ calls'[c].op = "delete" /\ downloads[s].present)
            => calls'[c].pc = "del_remove"
       /\ (calls[c].pc = "del_remove" /\ Stepped(c))
            => /\ ~downloads'[s].present
               /\ calls'[c].pc = "save_join"
       /\ (calls[c].op = "delete" /\ calls[c].pc = "save_join" /\ Stepped(c))
            => /\ calls'[c].pc = "save_write"
               /\ ~calls'[c].snapshot[s].present
       /\ (calls[c].op = "delete" /\ calls[c].pc = "save_write" /\ calls'[c].outcome = "ok")
            => /\ diskManifest' = calls[c].snapshot
               /\ ~diskManifest'[s].present
               /\ ~downloads'[s].present]_vars

\* C23 happens: deleteWad has returned for a slug of the manifest whose
\* file remove could not remove, and the record is gone in memory and on
\* disk
C23_Witness ==
  \E c \in Calls :
    /\ calls[c].op = "delete" /\ calls[c].pc = "done" /\ calls[c].outcome = "ok"
    /\ calls[c].err = "logged"
    /\ ~downloads[calls[c].cur].present
    /\ ~diskManifest[calls[c].cur].present

\* ======================================================================
\* The year of a WAD entry (src/src/lib/schema.ts)
\*
\* MAX_YEAR is computed once, when the module is evaluated; entries are
\* validated as long as the launcher runs, which may be into the next year.
\* ======================================================================
\* ------------------------------------------------------ program constants
\* z.number().int().min(1993)
MinYear == 1993

\* the calendar years of a run, and the years handed to the schema
NowYears == {2025, 2026}
Years == 1990..2030

InitSchema ==
  /\ OlderAtRest
  /\ GZAtRest
  /\ LoadAtRest
  /\ loadedYear \in NowYears
  /\ thisYear = loadedYear
  /\ year = 0
  /\ accepted = "none"

\* const MAX_YEAR = new Date().getFullYear() + 1, at module evaluation
MAX_YEAR == loadedYear + 1

\* year: z.number().int().min(1993).max(MAX_YEAR), for an integer y
WadEntrySchema(y) == y >= MinYear /\ y <= MAX_YEAR

\* New Year's Eve passes while the launcher runs
NewYear ==
  /\ thisYear + 1 \in NowYears
  /\ thisYear' = thisYear + 1
  /\ year' = 0
  /\ accepted' = "none"
  /\ UNCHANGED loadedYear
  /\ UNCHANGED outsideSchema

\* WadEntrySchema.safeParse of an entry with year y, valid otherwise
Validate(y) ==
  /\ year' = y
  /\ accepted' = IF WadEntrySchema(y) THEN "yes" ELSE "no"
  /\ UNCHANGED <<loadedYear, thisYear>>
  /\ UNCHANGED outsideSchema

NextSchema ==
  \/ NewYear
  \/ \E y \in Years : Validate(y)

SpecSchema == InitSchema /\ [][NextSchema]_schemaVars

\* C25: an integer year y is accepted exactly when it is at least 1993 and
\* at most the current calendar year plus one.
C25_YearWindow ==
  accepted # "none" => (accepted = "yes" <=> (1993 <= year /\ year <= thisYear + 1))

====
